---- MODULE Spec2Model ----
(***************************************************************************)
(* Closed-loop evaluation of a driving model in a traffic simulator:       *)
(* ScenarioRunner (scenario_config/scenario_runner.py), the session that   *)
(* owns the spawned actors, and TCPEvaluator                               *)
(* (scenario_config/tcp_evaluator.py), the evaluation loop and its         *)
(* metrics.  One sequential program (pc) plus the environment: the         *)
(* simulator, the wall clock and the user's interrupt.                     *)
(*                                                                         *)
(* Optional values are sequences: <<>> is None, <<v>> is the value v.      *)
(* Time is counted in clock units; one unit is the least amount the clock  *)
(* advances over the loop's time.sleep(0.05).                              *)
(***************************************************************************)
EXTENDS Integers, Sequences, FiniteSets, TLC

\* ------------------------------------------------------------------ bounds

\* config.evaluation.timeout and stuck_timeout, in clock units.
Timeout == 2
StuckTimeout == 1
\* The most the clock advances over one loop iteration.
MaxDelta == 2
\* The clock's reading when the process starts (start_time is 0 until set).
ClockAtStart == 1
\* Upper end of the count range of density "low", scaled.
MaxLow == 2
\* map.get_spawn_points(): how many spawn points the map has.
NumSpawnPoints == 1
\* How many actors the simulator removes on its own (world reload, another client).
MaxKills == 1
\* How many times a client of the session calls cleanup.
MaxCleanupCalls == 2
\* How many samples the metrics harness feeds to update_metrics.
MaxSamples == 5
\* How many collisions, lane invasions and red lights run happen to the ego.
MaxEvents == 2
\* How many waypoints map.generate_waypoints(5.0) samples.
MaxWaypoints == 3

\* ------------------------------------------------------- program constants

\* check_completion: "within 5 meters of destination".
CompletionRadius == 5
\* config.evaluation.stuck_speed_threshold, in units of 0.5 m/s.
StuckSpeedThreshold == 1

\* Ego speeds and distances to the destination the simulator can produce.
SpeedValues == {0, 1}
DistValues == {4, 5}

Densities == {"none", "low"}

None == <<>>
Some(v) == <<v>>
Get(o) == o[1]

VARIABLES
    \* ---- configuration
    cfg,                    \* ScenarioConfig: the traffic densities
    caller,                 \* the program that drives the session: "evaluator"
                            \* (tcp_evaluator.main) or "runner_main" (scenario_runner.main)
    \* ---- ScenarioRunner
    client, world,          \* self.client, self.world are set
    ego_vehicle,            \* Optional actor id
    vehicles, pedestrians, pedestrian_controllers, sensors,   \* lists of actor ids
    destination,            \* self.destination is set
    result,                 \* what run() returned: "none" | "ready" | "error"
    reported,               \* Optional: num_vehicles and num_pedestrians of a 'ready' result
    stages,                 \* the stages run() has entered, in order
    target_count, spawned, tries,     \* locals of the spawn loops
    ci,                     \* cleanup's position in the list it iterates
    \* ---- simulator
    actors,                 \* kind of every actor ever spawned, by id
    alive,                  \* ids of the actors still in the simulation
    kills,                  \* actors removed by the simulator itself
    destroyLog,             \* ids that received destroy(), in call order
    speed, dist,            \* ego speed, ego distance to the destination
    now,                    \* time.time()
    \* ---- TCPEvaluator
    pc,
    runner,                 \* self.runner is set
    model,                  \* self.model is loaded
    metrics,                \* EvaluationMetrics
    start_time, stuck_start_time, elapsed, step,
    speed_history,
    \* ---- main
    report, exitCode,
    \* ---- history
    interrupted,            \* a KeyboardInterrupt was delivered
    loopExit,               \* what ended the evaluation loop
    nUpdates, nControls, nTicks,      \* calls made by the loop
    atTop,                  \* <<nUpdates, nControls, nTicks>> when the current
                            \* iteration of the loop began
    nFinalize,              \* calls of finalize_metrics
    cleanupCalls,           \* completed calls of cleanup
    samples,                \* the <<time, speed>> of every update_metrics call
    cleanupLog,             \* per cleanup call: was finalize_metrics done before it
                            \* started, and the destroyLog length when it started
    \* ---- calls made on the simulator's controllers
    injections,             \* per actor given to the behavior injector: the
                            \* controller calls it made
    draws,                  \* the rule-break draw of every injection the
                            \* injector harness made
    \* ---- the maneuver locator
    town,                   \* the map: its spawn points and junctions
    maneuver,               \* config.maneuver: type, location, spawn_point_index
    plan,                   \* Optional: what find_maneuver_location gave
    found_intersections,    \* Optional: what _find_intersections gave
    pair_angle_diff,        \* Optional: the turn angle computed for a pair
    control,                \* Optional: the last compute_control call and its return
    data,                   \* Optional: the dict ScenarioConfig is constructed from
    scenario,               \* Optional: what constructing ScenarioConfig gave
    acceleration_history,   \* the accelerations sampled, each <<|dv|, dt>> for |dv| / dt
    last_velocity,          \* Optional: the velocity of the sample before
    last_time,              \* the time of the sample before, 0 at first
    collisions,             \* runner.collisions: the other_actor of each record
    lane_invasions,         \* runner.lane_invasions: the lane_types of each record
    red_lights_run,         \* runner.red_lights_run
    lights_run,             \* how many red lights the ego has run in the simulator
    callbacks               \* how many <<collision, lane invasion>> callbacks completed

sessionVars == <<client, world, ego_vehicle, vehicles, pedestrians,
                 pedestrian_controllers, sensors, destination, result, reported, stages,
                 target_count, spawned, tries, ci>>
simVars == <<actors, alive, kills, destroyLog, speed, dist, now>>
evalVars == <<pc, runner, model, metrics, start_time, stuck_start_time, elapsed,
              step, speed_history>>
mainVars == <<report, exitCode>>
locatorVars == <<town, maneuver, plan, found_intersections, pair_angle_diff>>
schemaVars == <<data, scenario>>
accelVars == <<acceleration_history, last_velocity, last_time>>
eventVars == <<collisions, lane_invasions, red_lights_run, lights_run, callbacks>>
restVars == <<injections, draws, locatorVars, control, schemaVars, eventVars>>
callVars == <<restVars, accelVars>>
histVars == <<interrupted, loopExit, nUpdates, nControls, nTicks, atTop, nFinalize,
              cleanupCalls, samples, cleanupLog>>
vars == <<cfg, caller, sessionVars, simVars, evalVars, mainVars, histVars, callVars>>

\* ------------------------------------------------------------ configuration

\* TrafficDensity
TrafficDensity == {"none", "low", "medium", "high"}

\* VEHICLE_DENSITY_MAP and PEDESTRIAN_DENSITY_MAP: (min, max) of each density.
VEHICLE_DENSITY_MAP(d) ==
    CASE d = "none" -> <<0, 0>>
      [] d = "low" -> <<10, 20>>
      [] d = "medium" -> <<30, 50>>
      [] d = "high" -> <<60, 100>>
PEDESTRIAN_DENSITY_MAP(d) ==
    CASE d = "none" -> <<0, 0>>
      [] d = "low" -> <<5, 10>>
      [] d = "medium" -> <<15, 30>>
      [] d = "high" -> <<40, 60>>

\* The sessions of the model count actors in a unit in which a range that is
\* not (0, 0) is (1, MaxLow).
Scaled(range) == IF range[2] = 0 THEN <<0, 0>> ELSE <<1, MaxLow>>

\* A count range whose upper end is one too far.
get_pedestrian_count_range_wide(d) ==
    <<Scaled(PEDESTRIAN_DENSITY_MAP(d))[1], Scaled(PEDESTRIAN_DENSITY_MAP(d))[2] + 1>>

\* get_vehicle_count_range / get_pedestrian_count_range, scaled.
get_vehicle_count_range(d) == Scaled(VEHICLE_DENSITY_MAP(d))
get_pedestrian_count_range(d) == Scaled(PEDESTRIAN_DENSITY_MAP(d))

\* ------------------------------------------------------------------- state

\* EvaluationMetrics(): the dataclass defaults.
\* float('inf'), and a float that is a number: the values of min_speed.
inf == <<>>
Finite(v) == <<v>>

EvaluationMetrics ==
    [scenario_name |-> "", maneuver_type |-> "",
     completed |-> FALSE, completion_time |-> 0,
     timeout_reached |-> FALSE, stuck |-> FALSE,
     distance_to_destination |-> 0,
     average_speed |-> [num |-> 0, den |-> 1],
     max_speed |-> 0, min_speed |-> inf,
     comfort_score |-> [num |-> 0, den |-> 1],
     num_collisions |-> 0, collision_types |-> <<>>,
     red_lights_run |-> 0, lane_invasions |-> 0]

\* VehicleBehaviors, PedestrianBehaviors: the named probabilities.
VehicleBehaviorNames == {"run_red_light", "ignore_stop_sign", "sudden_lane_change",
                         "ignore_right_of_way", "sudden_brake", "tailgate"}
PedestrianBehaviorNames == {"jaywalk", "ignore_signal", "sudden_crossing",
                            "stop_in_road"}

\* Probabilities in halves: 0.0, 0.5, 1.0.
Probabilities == {0, 1, 2}

\* random.random() is in [0.0, 1.0): 0.0, 0.5.
RandomDraws == {d \in Probabilities : \E p \in Probabilities : d < p}

\* random.uniform(-20, 30)
SpeedDiffs == {-20, 0, 30}

\* The dataclass defaults: every probability 0.0.
VehicleBehaviors == [b \in VehicleBehaviorNames |-> 0]
PedestrianBehaviors == [b \in PedestrianBehaviorNames |-> 0]

\* A ScenarioConfig of the given densities, its probabilities at their defaults.
ScenarioConfig(vehicle_density, pedestrian_density) ==
    [vehicles |-> vehicle_density,
     pedestrians |-> pedestrian_density,
     vehicle_rule_break_probability |-> 0,
     vehicle_behaviors |-> VehicleBehaviors,
     pedestrian_rule_break_probability |-> 0,
     pedestrian_behaviors |-> PedestrianBehaviors]

\* ManeuverType, LocationType
ManeuverTypes == {"straight", "left_turn", "right_turn"}
LocationTypes == {"intersection_signal", "intersection_no_signal", "road_segment"}

\* ManeuverConfig(): the dataclass defaults.
ManeuverConfig ==
    [type |-> "straight", location |-> "intersection_signal",
     spawn_point_index |-> -1]

\* A map of one spawn point, no junction and no sampled waypoint.
Town == [spawn_points |-> 1, junctions |-> <<>>, waypoints |-> <<>>]

\* The state when the program starts: nothing is connected or spawned.
Fresh ==
    /\ client = FALSE /\ world = FALSE
    /\ ego_vehicle = None
    /\ vehicles = <<>> /\ pedestrians = <<>>
    /\ pedestrian_controllers = <<>> /\ sensors = <<>>
    /\ destination = FALSE
    /\ result = "none" /\ reported = None /\ stages = <<>>
    /\ target_count = 0 /\ spawned = 0 /\ tries = 0 /\ ci = 1
    /\ actors = <<>> /\ alive = {} /\ kills = 0 /\ destroyLog = <<>>
    /\ speed = 0 /\ dist = CompletionRadius
    /\ now = ClockAtStart
    /\ pc = "start"
    /\ runner = FALSE /\ model = FALSE
    /\ metrics = EvaluationMetrics
    /\ start_time = 0 /\ stuck_start_time = None /\ elapsed = 0 /\ step = 0
    /\ speed_history = <<>>
    /\ report = None /\ exitCode = None
    /\ interrupted = FALSE /\ loopExit = "none"
    /\ nUpdates = 0 /\ nControls = 0 /\ nTicks = 0 /\ nFinalize = 0
    /\ atTop = <<0, 0, 0>>
    /\ cleanupCalls = 0 /\ samples = <<>> /\ cleanupLog = <<>>
    /\ injections = <<>> /\ draws = <<>>
    /\ town = Town /\ maneuver = ManeuverConfig /\ plan = None
    /\ found_intersections = None /\ pair_angle_diff = None
    /\ control = None
    /\ data = None /\ scenario = None
    /\ acceleration_history = <<>> /\ last_velocity = None /\ last_time = 0
    /\ collisions = <<>> /\ lane_invasions = <<>>
    /\ red_lights_run = 0 /\ lights_run = 0 /\ callbacks = <<0, 0>>

\* tcp_evaluator.main on a scenario without background traffic.
Init ==
    /\ caller = "evaluator"
    /\ cfg = ScenarioConfig("none", "none")
    /\ Fresh

\* scenario_runner.main on a scenario of any traffic density.
SessionInit ==
    /\ caller = "runner_main"
    /\ \E v \in Densities, p \in Densities : cfg = ScenarioConfig(v, p)
    /\ Fresh

\* ------------------------------------------------------------- simulator

NewId == Len(actors) + 1

\* world.spawn_actor / try_spawn_actor succeeding: a new live actor of `kind`.
SpawnActor(kind) ==
    /\ actors' = Append(actors, kind)
    /\ alive' = alive \cup {NewId}

NoSpawn == UNCHANGED <<actors, alive>>

\* actor.is_alive
is_alive(a) == a \in alive

\* The simulator removes an actor on its own (a world reload, another client).
EnvKill ==
    /\ kills < MaxKills
    /\ \E a \in alive :
          /\ alive' = alive \ {a}
          /\ kills' = kills + 1
    /\ UNCHANGED <<cfg, caller, sessionVars, actors, destroyLog, speed, dist, now,
                   evalVars, mainVars, histVars, callVars>>

\* ------------------------------------------------- ScenarioRunner.run

\* 'num_vehicles' and 'num_pedestrians' of the dictionary run() returns.
Counts(num_vehicles, num_pedestrians) ==
    [num_vehicles |-> num_vehicles, num_pedestrians |-> num_pedestrians]

\* A run() that answers 'ready' where a stage failed.
RunError_swallowed ==
    /\ result' = "ready"
    /\ pc' = "run_returned"
    /\ UNCHANGED <<stages, reported>>

\* run(): a stage returned False or raised: return {'error': ...}.
RunError ==
    /\ result' = "error"
    /\ pc' = "run_returned"
    /\ UNCHANGED <<stages, reported>>

\* The stage methods a client of a session can call by themselves.
StageMethods == {"spawn_ego_vehicle", "spawn_traffic", "setup_sensors"}

\* run(): the stage before returned normally and `stage` is entered; a stage
\* method that a client called by itself returns to the client.
Enter(stage) ==
    IF caller \in StageMethods
    THEN /\ pc' = "run_returned"
         /\ UNCHANGED <<result, reported, stages>>
    ELSE /\ pc' = stage
         /\ stages' = Append(stages, stage)
         /\ UNCHANGED <<result, reported>>

\* A step inside a stage.
Within(p) == pc' = p /\ UNCHANGED <<result, reported, stages>>

\* TCPEvaluator.setup_scenario, first line: self.runner = ScenarioRunner(...).
create_runner ==
    /\ pc = "start"
    /\ runner' = TRUE
    /\ Enter("connect")
    /\ UNCHANGED <<cfg, caller, client, world, ego_vehicle, vehicles, pedestrians,
                   pedestrian_controllers, sensors, destination,
                   target_count, spawned, tries, ci, simVars, model, metrics, start_time,
                   stuck_start_time, elapsed, step, speed_history,
                   mainVars, histVars, callVars>>

sessionFrame == <<cfg, caller, runner, model, metrics, start_time, stuck_start_time,
                  elapsed, step, speed_history, mainVars, histVars>>

connect ==
    /\ pc = "connect"
    /\ \/ /\ client' = TRUE
          /\ Enter("load_world")
       \/ /\ RunError
          /\ UNCHANGED client
    /\ UNCHANGED <<world, ego_vehicle, vehicles, pedestrians, pedestrian_controllers,
                   sensors, destination, target_count, spawned, tries, ci,
                   simVars, sessionFrame, callVars>>

load_world ==
    /\ pc = "load_world"
    /\ \/ /\ world' = TRUE
          /\ Enter("apply_settings")
       \/ \* get_world/load_world raised: self.world stays unset
          /\ RunError
          /\ UNCHANGED world
       \/ \* the traffic manager raised after self.world was assigned
          /\ world' = TRUE
          /\ RunError
    /\ UNCHANGED <<client, ego_vehicle, vehicles, pedestrians, pedestrian_controllers,
                   sensors, destination, target_count, spawned, tries, ci,
                   simVars, sessionFrame, callVars>>

\* run(): apply_weather(); apply_friction()
apply_settings ==
    /\ pc = "apply_settings"
    /\ \/ Enter("spawn_ego_vehicle")
       \/ RunError
    /\ UNCHANGED <<client, world, ego_vehicle, vehicles, pedestrians,
                   pedestrian_controllers, sensors, destination, target_count,
                   spawned, tries, ci, simVars, sessionFrame, callVars>>

spawn_ego_vehicle ==
    /\ pc = "spawn_ego_vehicle"
    /\ \/ \* find_maneuver_location raised
          /\ RunError
          /\ NoSpawn
          /\ UNCHANGED <<ego_vehicle, destination>>
       \/ \* the blueprint library or try_spawn_actor raised
          /\ destination' = TRUE
          /\ RunError
          /\ NoSpawn
          /\ UNCHANGED ego_vehicle
       \/ \* try_spawn_actor returned None, which self.ego_vehicle now holds
          /\ destination' = TRUE
          /\ RunError
          /\ NoSpawn
          /\ ego_vehicle' = None
       \/ \* the ego was spawned and the physics control or the spectator raised
          /\ destination' = TRUE
          /\ SpawnActor("ego")
          /\ ego_vehicle' = Some(NewId)
          /\ RunError
       \/ /\ destination' = TRUE
          /\ SpawnActor("ego")
          /\ ego_vehicle' = Some(NewId)
          /\ Enter("spawn_vehicles")
    /\ UNCHANGED <<client, world, vehicles, pedestrians, pedestrian_controllers,
                   sensors, target_count, spawned, tries, ci,
                   kills, destroyLog, speed, dist, now, sessionFrame, callVars>>

\* ------------------------------------------------- the maneuver locator

\* The heading difference as it is, not brought into one turn.
turn_angle_unwrapped(entry_yaw, exit_yaw) == exit_yaw - entry_yaw

\* angle_diff = (exit_yaw - entry_yaw + 180) % 360 - 180
turn_angle(entry_yaw, exit_yaw) == ((exit_yaw - entry_yaw + 180) % 360) - 180

\* A matching whose bands take their end points in.
is_match_inclusive(maneuver_type, angle_diff) ==
    \/ maneuver_type = "straight" /\ -30 <= angle_diff /\ angle_diff <= 30
    \/ maneuver_type = "left_turn" /\ -120 <= angle_diff /\ angle_diff <= -60
    \/ maneuver_type = "right_turn" /\ 60 <= angle_diff /\ angle_diff <= 120

\* "Match maneuver type": the three tests on angle_diff.
is_match(maneuver_type, angle_diff) ==
    \/ maneuver_type = "straight"
         /\ (IF angle_diff < 0 THEN -angle_diff ELSE angle_diff) < 30
    \/ maneuver_type = "left_turn" /\ -120 < angle_diff /\ angle_diff < -60
    \/ maneuver_type = "right_turn" /\ 60 < angle_diff /\ angle_diff < 120

\* A waypoint of map.generate_waypoints(5.0) is the index of the junction it
\* lies in, or 0 on a road: wp.is_junction.
is_junction(wp) == wp # 0

\* "Remove duplicates (same junction)": the first waypoint of each junction,
\* in the order met.
RECURSIVE unique_junctions(_)
unique_junctions(wps) ==
    IF wps = <<>> THEN <<>>
    ELSE LET front == unique_junctions(SubSeq(wps, 1, Len(wps) - 1))
             wp == wps[Len(wps)]
         IN  IF is_junction(wp) /\ \A k \in 1..Len(front) : front[k] # wp
             THEN Append(front, wp)
             ELSE front

\* _find_intersections(location_type): the waypoints kept, each the index of
\* its junction, one per junction. The three tests are made under
\* "if wp.is_junction".
find_intersections(map, location_type) ==
    unique_junctions(
        SelectSeq(map.waypoints,
                  LAMBDA wp :
                     /\ is_junction(wp)
                     /\ \/ location_type = "intersection_signal"
                              /\ map.junctions[wp].has_signal
                        \/ location_type = "intersection_no_signal"
                              /\ ~map.junctions[wp].has_signal
                        \/ location_type = "road_segment"
                              /\ ~is_junction(wp)))

\* A pair accepted without asking for the waypoint after the exit.
pair_gives_plan_unchecked(pair, maneuver_type) ==
    /\ is_match(maneuver_type, turn_angle(pair.entry_yaw, pair.exit_yaw))
    /\ pair.has_previous

\* One (entry, exit) pair gives a plan: it matches, entry_wp.previous(40.0) is
\* not empty and exit_wp.next(30.0) is not empty.
pair_gives_plan(pair, maneuver_type) ==
    /\ is_match(maneuver_type, turn_angle(pair.entry_yaw, pair.exit_yaw))
    /\ pair.has_previous
    /\ pair.has_next

\* A search that keeps the last pair that gives a plan.
find_maneuver_spawn_at_intersection_last(junction, maneuver_type) ==
    LET good == {k \in 1..Len(junction.pairs) :
                    pair_gives_plan(junction.pairs[k], maneuver_type)} IN
    IF good = {} THEN None
    ELSE Some(CHOOSE k \in good : \A l \in good : k >= l)

\* _find_maneuver_spawn_at_intersection: the first pair that gives a plan, or None.
find_maneuver_spawn_at_intersection(junction, maneuver_type) ==
    LET good == {k \in 1..Len(junction.pairs) :
                    pair_gives_plan(junction.pairs[k], maneuver_type)} IN
    IF good = {} THEN None
    ELSE Some(CHOOSE k \in good : \A l \in good : k <= l)

\* _calculate_destination(spawn, maneuver_type): 100 m ahead of the spawn, by
\* the road or by the forward vector.
calculate_destination(spawn) == <<"ahead", 100, spawn>>

Plan(path, spawn, dest) ==
    [raised |-> FALSE, path |-> path, spawn |-> spawn, destination |-> dest]

\* random.choice(spawn_points), choice being the index drawn: IndexError on
\* an empty list.
random_spawn(map, path, choice) ==
    IF map.spawn_points = 0
    THEN [raised |-> TRUE, path |-> path, spawn |-> <<>>, destination |-> <<>>]
    ELSE Plan(path, <<"spawn_point", choice>>,
              calculate_destination(<<"spawn_point", choice>>))

\* A locator that takes any index given, with no look at the list's length.
find_maneuver_location_any_index(map, m, choice) ==
    IF m.spawn_point_index >= 0
    THEN Plan("index", <<"spawn_point", m.spawn_point_index + 1>>,
              calculate_destination(<<"spawn_point", m.spawn_point_index + 1>>))
    ELSE LET intersections == find_intersections(map, m.location)
             found == {i \in 1..Len(intersections) :
                         find_maneuver_spawn_at_intersection(
                             map.junctions[intersections[i]], m.type) # None}
         IN
         IF intersections = <<>>
         THEN random_spawn(map, "no_intersections", choice)
         ELSE IF found = {}
         THEN random_spawn(map, "fallback", choice)
         ELSE LET i == CHOOSE i \in found : \A l \in found : i <= l
                  j == intersections[i]
                  k == Get(find_maneuver_spawn_at_intersection(map.junctions[j],
                                                               m.type))
              IN Plan("junction", <<"previous", 40, j, k>>, <<"next", 30, j, k>>)

\* find_maneuver_location(): spawn_points[idx] is index idx + 1 here.
find_maneuver_location(map, m, choice) ==
    IF m.spawn_point_index >= 0 /\ m.spawn_point_index < map.spawn_points
    THEN Plan("index", <<"spawn_point", m.spawn_point_index + 1>>,
              calculate_destination(<<"spawn_point", m.spawn_point_index + 1>>))
    ELSE LET intersections == find_intersections(map, m.location)
             found == {i \in 1..Len(intersections) :
                         find_maneuver_spawn_at_intersection(
                             map.junctions[intersections[i]], m.type) # None}
         IN
         IF intersections = <<>>
         THEN random_spawn(map, "no_intersections", choice)
         ELSE IF found = {}
         THEN random_spawn(map, "fallback", choice)
         ELSE LET i == CHOOSE i \in found : \A l \in found : i <= l
                  j == intersections[i]
                  k == Get(find_maneuver_spawn_at_intersection(map.junctions[j],
                                                               m.type))
              IN Plan("junction", <<"previous", 40, j, k>>, <<"next", 30, j, k>>)

\* ------------------------------------------------- the behavior injector

\* One call on the traffic manager or on a walker's controller.
Call(behavior, method, value) ==
    [behavior |-> behavior, method |-> method, value |-> value]

\* "if random.random() < p: ..." with draw d: the calls `then`, or none.
When(d, p, then) == IF d < p THEN then ELSE <<>>

\* The sub-behaviors _apply_vehicle_behavior draws for.
VehicleTests == {"run_red_light", "ignore_stop_sign", "sudden_lane_change",
                 "ignore_right_of_way", "tailgate"}

\* _apply_vehicle_behavior(vehicle, config): r is the rule-break draw, d the
\* draws of the sub-behavior tests, speed_diff the draw of random.uniform.
apply_vehicle_behavior(rule_break_prob, behaviors, r, d, speed_diff) ==
    IF r > rule_break_prob
    THEN <<>>
    ELSE When(d.run_red_light, behaviors.run_red_light,
              <<Call("run_red_light", "ignore_lights_percentage", 100)>>)
         \o When(d.ignore_stop_sign, behaviors.ignore_stop_sign,
              <<Call("ignore_stop_sign", "ignore_signs_percentage", 100)>>)
         \o When(d.sudden_lane_change, behaviors.sudden_lane_change,
              <<Call("sudden_lane_change", "random_left_lanechange_percentage", 50),
                Call("sudden_lane_change", "random_right_lanechange_percentage", 50)>>)
         \o When(d.ignore_right_of_way, behaviors.ignore_right_of_way,
              <<Call("ignore_right_of_way", "ignore_vehicles_percentage", 50)>>)
         \o When(d.tailgate, behaviors.tailgate,
              <<Call("tailgate", "distance_to_leading_vehicle", 1)>>)
         \o <<Call("speed_variation", "vehicle_percentage_speed_difference",
                   speed_diff)>>

\* The sub-behaviors _apply_pedestrian_behavior draws for.
PedestrianTests == {"jaywalk", "ignore_signal", "sudden_crossing"}

\* _apply_pedestrian_behavior(controller, walker, config): the test of
\* ignore_signal guards a "pass"; sudden_crossing acts when the ego is held.
apply_pedestrian_behavior(rule_break_prob, behaviors, r, d, ego) ==
    IF r > rule_break_prob
    THEN <<>>
    ELSE When(d.jaywalk, behaviors.jaywalk,
              <<Call("jaywalk", "set_max_speed", "fast")>>)
         \o When(d.ignore_signal, behaviors.ignore_signal, <<>>)
         \o When(d.sudden_crossing, behaviors.sudden_crossing,
              IF ego # None
              THEN <<Call("sudden_crossing", "go_to_location", "near_ego")>>
              ELSE <<>>)

\* What the injector did with one actor.
Injection(actor, kind, calls) ==
    [actor |-> actor, kind |-> kind, calls |-> calls]

\* self._apply_vehicle_behavior(vehicle, vehicle_config) on the vehicle just spawned
inject_vehicle(actor, r) ==
    \E d \in [VehicleTests -> RandomDraws], sd \in SpeedDiffs :
        injections' = Append(injections,
            Injection(actor, "vehicle",
                      apply_vehicle_behavior(cfg.vehicle_rule_break_probability,
                                             cfg.vehicle_behaviors, r, d, sd)))

\* self._apply_pedestrian_behavior(controller, walker, ped_config) on the
\* controller just started
inject_pedestrian(actor, r) ==
    \E d \in [PedestrianTests -> RandomDraws] :
        injections' = Append(injections,
            Injection(actor, "controller",
                      apply_pedestrian_behavior(cfg.pedestrian_rule_break_probability,
                                                cfg.pedestrian_behaviors, r, d,
                                                ego_vehicle)))

\* _spawn_vehicles up to its loop: the count range, the target, the spawn points.
spawn_vehicles ==
    /\ pc = "spawn_vehicles"
    /\ LET range == get_vehicle_count_range(cfg.vehicles) IN
       \/ /\ range[2] = 0
          /\ Within("spawn_pedestrians")
          /\ UNCHANGED <<target_count, spawned, tries>>
       \/ /\ range[2] # 0
          /\ \E t \in range[1]..range[2] : target_count' = t
          /\ spawned' = 0
          /\ tries' = NumSpawnPoints
          /\ Within("spawn_vehicle")
       \/ \* the blueprint library or the map raised
          /\ range[2] # 0
          /\ RunError
          /\ UNCHANGED <<target_count, spawned, tries>>
    /\ UNCHANGED <<client, world, ego_vehicle, vehicles, pedestrians,
                   pedestrian_controllers, sensors, destination, ci,
                   simVars, sessionFrame, callVars>>

\* A loop over the spawn points that spawns with spawn_actor, which raises
\* where try_spawn_actor returns None.
spawn_vehicle_raising ==
    /\ pc = "spawn_vehicle"
    /\ IF spawned >= target_count \/ tries = 0
       THEN /\ Within("spawn_pedestrians")
            /\ NoSpawn
            /\ target_count' = 0 /\ spawned' = 0 /\ tries' = 0
            /\ UNCHANGED <<vehicles, injections>>
       ELSE /\ tries' = tries - 1
            /\ UNCHANGED target_count
            /\ \/ \* the spawn point is taken: spawn_actor raised
                  /\ NoSpawn
                  /\ RunError
                  /\ UNCHANGED <<vehicles, spawned, injections>>
               \/ /\ SpawnActor("vehicle")
                  /\ \E r \in RandomDraws : inject_vehicle(NewId, r)
                  /\ vehicles' = Append(vehicles, NewId)
                  /\ spawned' = spawned + 1
                  /\ UNCHANGED <<pc, result, reported, stages>>
               \/ \* set_autopilot raised: the vehicle exists and was not
                  \* appended yet
                  /\ SpawnActor("vehicle")
                  /\ RunError
                  /\ UNCHANGED <<vehicles, spawned, injections>>
    /\ UNCHANGED <<client, world, ego_vehicle, pedestrians, pedestrian_controllers,
                   sensors, destination, ci,
                   kills, destroyLog, speed, dist, now, sessionFrame, draws, locatorVars,
                   control, schemaVars, accelVars, eventVars>>

\* _spawn_vehicles: one iteration of "for spawn_point in spawn_points".
spawn_vehicle ==
    /\ pc = "spawn_vehicle"
    /\ IF spawned >= target_count \/ tries = 0
       THEN /\ Within("spawn_pedestrians")
            /\ NoSpawn
            /\ target_count' = 0 /\ spawned' = 0 /\ tries' = 0
            /\ UNCHANGED <<vehicles, injections>>
       ELSE /\ tries' = tries - 1
            /\ UNCHANGED target_count
            /\ \/ \* too close to the ego, or try_spawn_actor returned None
                  /\ NoSpawn
                  /\ UNCHANGED <<vehicles, spawned, pc, result, reported, stages,
                               injections>>
               \/ /\ SpawnActor("vehicle")
                  /\ \E r \in RandomDraws : inject_vehicle(NewId, r)
                  /\ vehicles' = Append(vehicles, NewId)
                  /\ spawned' = spawned + 1
                  /\ UNCHANGED <<pc, result, reported, stages>>
               \/ \* set_autopilot raised: the vehicle exists and was not
                  \* appended yet
                  /\ SpawnActor("vehicle")
                  /\ RunError
                  /\ UNCHANGED <<vehicles, spawned, injections>>
    /\ UNCHANGED <<client, world, ego_vehicle, pedestrians, pedestrian_controllers,
                   sensors, destination, ci,
                   kills, destroyLog, speed, dist, now, sessionFrame, draws, locatorVars,
                   control, schemaVars, accelVars, eventVars>>

\* _spawn_pedestrians up to its loop: the target and the spawn locations found.
spawn_pedestrians ==
    /\ pc = "spawn_pedestrians"
    /\ LET range == get_pedestrian_count_range(cfg.pedestrians) IN
       \/ /\ range[2] = 0
          /\ Enter("setup_sensors")
          /\ UNCHANGED <<target_count, spawned, tries>>
       \/ /\ range[2] # 0
          /\ \E t \in range[1]..range[2] :
                /\ target_count' = t
                /\ \E n \in 0..(t * 3) : tries' = n
          /\ spawned' = 0
          /\ Within("spawn_pedestrian")
       \/ /\ range[2] # 0
          /\ RunError
          /\ UNCHANGED <<target_count, spawned, tries>>
    /\ UNCHANGED <<client, world, ego_vehicle, vehicles, pedestrians,
                   pedestrian_controllers, sensors, destination, ci,
                   simVars, sessionFrame, callVars>>

\* _spawn_pedestrians: one iteration of "for loc in spawn_locations".
spawn_pedestrian ==
    /\ pc = "spawn_pedestrian"
    /\ IF spawned >= target_count \/ tries = 0
       THEN /\ Enter("setup_sensors")
            /\ NoSpawn
            /\ target_count' = 0 /\ spawned' = 0 /\ tries' = 0
            /\ UNCHANGED <<pedestrians, pedestrian_controllers, injections>>
       ELSE /\ tries' = tries - 1
            /\ UNCHANGED target_count
            /\ \/ \* try_spawn_actor returned None
                  /\ NoSpawn
                  /\ UNCHANGED <<pedestrians, pedestrian_controllers, spawned, pc,
                               result, reported, stages, injections>>
               \/ \* the walker was appended and spawn_actor(controller) raised
                  /\ SpawnActor("walker")
                  /\ pedestrians' = Append(pedestrians, NewId)
                  /\ RunError
                  /\ UNCHANGED <<pedestrian_controllers, spawned, injections>>
               \/ \* walker and controller appended; start, go_to_location or
                  \* _apply_pedestrian_behavior raised
                  /\ actors' = actors \o <<"walker", "controller">>
                  /\ alive' = alive \cup {NewId, NewId + 1}
                  /\ pedestrians' = Append(pedestrians, NewId)
                  /\ pedestrian_controllers' = Append(pedestrian_controllers, NewId + 1)
                  /\ RunError
                  /\ UNCHANGED <<spawned, injections>>
               \/ /\ actors' = actors \o <<"walker", "controller">>
                  /\ alive' = alive \cup {NewId, NewId + 1}
                  /\ pedestrians' = Append(pedestrians, NewId)
                  /\ pedestrian_controllers' = Append(pedestrian_controllers, NewId + 1)
                  /\ \E r \in RandomDraws : inject_pedestrian(NewId + 1, r)
                  /\ spawned' = spawned + 1
                  /\ UNCHANGED <<pc, result, reported, stages>>
    /\ UNCHANGED <<client, world, ego_vehicle, vehicles, sensors, destination,
                   ci, kills, destroyLog, speed, dist, now, sessionFrame, draws, locatorVars,
                   control, schemaVars, accelVars, eventVars>>

\* setup_sensors: the collision sensor, then the lane invasion sensor; each is
\* spawned, told to listen and appended. `spawned` counts the sensors this
\* call has appended.
setup_sensors ==
    /\ pc = "setup_sensors"
    /\ IF ego_vehicle = None \/ spawned = 2
       THEN /\ Enter("settle")
            /\ NoSpawn
            /\ spawned' = 0
            /\ UNCHANGED sensors
       ELSE \/ \* spawn_actor raised
               /\ RunError
               /\ NoSpawn
               /\ spawned' = 0
               /\ UNCHANGED sensors
            \/ \* listen raised: the sensor exists and was not appended yet
               /\ SpawnActor("sensor")
               /\ RunError
               /\ spawned' = 0
               /\ UNCHANGED sensors
            \/ /\ SpawnActor("sensor")
               /\ sensors' = Append(sensors, NewId)
               /\ spawned' = spawned + 1
               /\ UNCHANGED <<pc, result, reported, stages>>
    /\ UNCHANGED <<client, world, ego_vehicle, vehicles, pedestrians,
                   pedestrian_controllers, destination, target_count, tries,
                   ci, kills, destroyLog, speed, dist, now, sessionFrame, callVars>>

\* run(): self.world.tick(); time.sleep(1.0); return {'status': 'ready', ...}
settle ==
    /\ pc = "settle"
    /\ \/ /\ \E s \in SpeedValues, d \in DistValues : speed' = s /\ dist' = d
          /\ result' = "ready"
          /\ reported' = Some(Counts(Len(vehicles), Len(pedestrians)))
          /\ pc' = "run_returned" /\ UNCHANGED stages
       \/ \* world.tick() raised
          /\ RunError
          /\ UNCHANGED <<speed, dist>>
    /\ UNCHANGED <<client, world, ego_vehicle, vehicles, pedestrians,
                   pedestrian_controllers, sensors, destination, target_count,
                   spawned, tries, ci, actors, alive, kills, destroyLog, now,
                   sessionFrame, callVars>>

\* run(), but for the iterations of the two spawn loops.
run ==
    \/ connect
    \/ load_world
    \/ apply_settings
    \/ spawn_ego_vehicle
    \/ spawn_vehicles
    \/ spawn_pedestrians
    \/ setup_sensors
    \/ settle

\* The iterations of the spawn loops: entered when a density is not "none".
spawn_traffic == spawn_vehicle \/ spawn_pedestrian

\* --------------------------------------------- TCPEvaluator: the metrics

\* Stuck detection that leaves the timer running when the speed recovers.
stuck_detection_no_reset(s, t, sst, stuck) ==
    IF s < StuckSpeedThreshold
    THEN IF sst = None
         THEN <<Some(t), stuck>>
         ELSE IF t - Get(sst) > StuckTimeout
              THEN <<sst, TRUE>>
              ELSE <<sst, stuck>>
    ELSE <<sst, stuck>>

\* Stuck detection that restarts the timer at every below-threshold sample.
stuck_detection_restart(s, t, sst, stuck) ==
    IF s < StuckSpeedThreshold
    THEN IF sst = None
         THEN <<Some(t), stuck>>
         ELSE IF t - Get(sst) > StuckTimeout
              THEN <<Some(t), TRUE>>
              ELSE <<Some(t), stuck>>
    ELSE <<None, stuck>>

\* update_metrics, "Stuck detection": the new <<stuck_start_time, metrics.stuck>>
\* for a sample of speed s taken at time t.
stuck_detection(s, t, sst, stuck) ==
    IF s < StuckSpeedThreshold
    THEN IF sst = None
         THEN <<Some(t), stuck>>
         ELSE IF t - Get(sst) > StuckTimeout
              THEN <<sst, TRUE>>
              ELSE <<sst, stuck>>
    ELSE <<None, stuck>>

\* abs and max of Python.
Abs(x) == IF x < 0 THEN -x ELSE x
Max(x, y) == IF x >= y THEN x ELSE y

\* update_metrics, "Acceleration": with a sample before this one, taken at a
\* time above 0 and dt > 0 ago, the magnitude |v - last_velocity| / dt is
\* appended; the ego moves along x, so the magnitude is that of the speed
\* difference.
acceleration(s, t) ==
    IF last_velocity # None /\ last_time > 0 /\ t - last_time > 0
    THEN Append(acceleration_history,
                <<Abs(s - Get(last_velocity)), t - last_time>>)
    ELSE acceleration_history

\* min(self.metrics.min_speed, speed)
min(a, s) == IF a = inf THEN Finite(s)
             ELSE IF s < a[1] THEN Finite(s) ELSE a

\* update_metrics(ego_vehicle, current_time) for an ego of speed s at distance d
\* from the destination.
update_metrics(s, d, t) ==
    LET sd == stuck_detection(s, t, stuck_start_time, metrics.stuck) IN
    /\ speed_history' = Append(speed_history, s)
    /\ acceleration_history' = acceleration(s, t)
    /\ last_velocity' = Some(s)
    /\ last_time' = t
    /\ stuck_start_time' = sd[1]
    /\ metrics' = [metrics EXCEPT
                      !.max_speed = Max(@, s),
                      !.min_speed = min(@, s),
                      !.distance_to_destination =
                          IF runner /\ destination THEN d ELSE @,
                      !.stuck = sd[2]]

\* check_completion's test: distance < 5.0
within_radius(d) == d < CompletionRadius

\* check_completion
check_completion ==
    IF ~runner \/ ~destination \/ ego_vehicle = None
    THEN FALSE
    ELSE within_radius(dist)

RECURSIVE Sum(_, _)
Sum(h, k) == IF k > Len(h) THEN 0 ELSE h[k] + Sum(h, k + 1)

\* np.mean(self.speed_history), as a fraction.
mean(h) == [num |-> Sum(h, 1), den |-> Len(h)]

\* The product of the dt of the samples k..Len(h): a common denominator.
RECURSIVE Denominator(_, _)
Denominator(h, k) ==
    IF k > Len(h) THEN 1 ELSE h[k][2] * Denominator(h, k + 1)

\* Sample k over the common denominator.
Numerator(h, k) == h[k][1] * (Denominator(h, 1) \div h[k][2])

RECURSIVE SumOf(_, _, _)
SumOf(h, k, square) ==
    IF k > Len(h) THEN 0
    ELSE (IF square THEN Numerator(h, k) * Numerator(h, k) ELSE Numerator(h, k))
         + SumOf(h, k + 1, square)

\* np.var(h), the population variance mean(x^2) - mean(x)^2, as an exact
\* fraction; speeds are in units of 0.5 m/s, so this is in units of 0.25.
var(h) ==
    [num |-> Len(h) * SumOf(h, 1, TRUE) - SumOf(h, 1, FALSE) * SumOf(h, 1, FALSE),
     den |-> Len(h) * Len(h) * Denominator(h, 1) * Denominator(h, 1)]

\* max(0, 100 - accel_variance * 10), as an exact fraction: the variance in
\* (m/s^2)^2 is accel_variance / 4.
comfort(accel_variance) ==
    [num |-> Max(0, 400 * accel_variance.den - 10 * accel_variance.num),
     den |-> 4 * accel_variance.den]

\* finalize_metrics(elapsed_time) up to its first read of the runner's
\* collision log: the comfort score is set only "if self.acceleration_history";
\* num_collisions is len(self.runner.collisions).
finalize_metrics(m, elapsed_time) ==
    [m EXCEPT !.completion_time = elapsed_time,
              !.average_speed = IF speed_history # <<>>
                                THEN mean(speed_history)
                                ELSE @,
              !.comfort_score = IF acceleration_history # <<>>
                                THEN comfort(var(acceleration_history))
                                ELSE @,
              !.num_collisions = IF runner THEN Len(collisions) ELSE @]

\* The rest of finalize_metrics: the second read of the collision log, for
\* collision_types, and the other two counters. The sensor callbacks run on
\* the client's own thread and may append between the two reads.
finalize_metrics_rest(m) ==
    [m EXCEPT !.collision_types = IF runner THEN collisions ELSE @,
              !.lane_invasions = IF runner THEN Len(lane_invasions) ELSE @,
              !.red_lights_run = IF runner THEN red_lights_run ELSE @]

\* get_camera_image: "placeholder", returns None
get_camera_image == None

\* command = 3, "Lane follow": the command run_evaluation passes.
LaneFollow == 3

\* cmd_one_hot = [0] * 6: the indices cmd_one_hot[command] accepts, and the
\* commands a caller of compute_control may pass.
CommandSlots == 0..5
Commands == 0..6

\* (steer, throttle, brake)
Controls == {-1, 0, 1} \X {0, 1} \X {0, 1}
NeutralControl == <<0, 0, 0>>

\* self.model(...) and self.model.control_pid(...): the forward pass either
\* raises or gives a control.
Forwards == [raised : BOOLEAN, control : Controls]

\* What a call gives its caller: a control, or the exception it lets out.
Returned(c) == [raised |-> FALSE, control |-> c]
Raised == [raised |-> TRUE, control |-> NeutralControl]

\* compute_control with its try/except removed.
compute_control_unguarded(model_loaded, command, forward) ==
    IF ~model_loaded THEN Returned(NeutralControl)
    ELSE IF command \notin CommandSlots \/ forward.raised
         THEN Raised
         ELSE Returned(forward.control)

\* compute_control: no model gives the neutral control; an exception in the
\* one-hot indexing or in the forward pass is logged and gives the neutral
\* control; otherwise the control of the forward pass.
compute_control(model_loaded, command, forward) ==
    IF ~model_loaded THEN Returned(NeutralControl)
    ELSE IF command \notin CommandSlots \/ forward.raised
         THEN Returned(NeutralControl)
         ELSE Returned(forward.control)

\* One call of compute_control: its inputs and what it returned.
ControlCall(model_loaded, v, command, forward) ==
    [speed |-> v, command |-> command, forward |-> forward,
     returned |-> compute_control(model_loaded, command, forward)]

\* ------------------------------------- TCPEvaluator.run_evaluation

LoopPcs == {"loop_top", "loop_completion", "loop_update", "loop_control",
            "loop_tick", "loop_sleep"}
SetupPcs == {"start", "connect", "load_world", "apply_settings",
             "spawn_ego_vehicle", "spawn_vehicles", "spawn_vehicle",
             "spawn_pedestrians", "spawn_pedestrian", "setup_sensors", "settle",
             "run_returned"}
\* Everything inside run_evaluation's try block.
TryPcs == SetupPcs \cup {"load_model", "get_ego", "init"} \cup LoopPcs
             \cup {"finalize", "finalize_rest", "return"}
CleanupPcs == {"cleanup_sensors", "cleanup_controllers", "cleanup_pedestrians",
               "cleanup_vehicles", "cleanup_ego"}

loopTopFrame == <<cfg, caller, sessionVars, actors, alive, kills, destroyLog, mainVars>>
evalFrame == <<loopTopFrame, atTop>>

\* A run_evaluation that goes on whatever setup_scenario answered.
setup_check_ignores ==
    /\ pc = "run_returned"
    /\ caller = "evaluator"
    /\ metrics' = [metrics EXCEPT !.scenario_name = "name",
                                   !.maneuver_type = "maneuver"]
    /\ pc' = "load_model"
    /\ UNCHANGED <<evalFrame, speed, dist, now, runner, model, start_time,
                   stuck_start_time, elapsed, step, speed_history,
                   histVars, callVars>>

\* setup_scenario after run() returned, and run_evaluation's test of it.
setup_check ==
    /\ pc = "run_returned"
    /\ caller = "evaluator"
    /\ IF result # "ready"
       THEN /\ metrics' = [metrics EXCEPT !.completed = FALSE]
            /\ pc' = "finally"
       ELSE /\ metrics' = [metrics EXCEPT !.scenario_name = "name",
                                          !.maneuver_type = "maneuver"]
            /\ pc' = "load_model"
    /\ UNCHANGED <<evalFrame, speed, dist, now, runner, model, start_time,
                   stuck_start_time, elapsed, step, speed_history,
                   histVars, callVars>>

\* self.load_model(): the model is loaded or not; load_model raises nothing.
load_model ==
    /\ pc = "load_model"
    /\ model' \in BOOLEAN
    /\ pc' = "get_ego"
    /\ UNCHANGED <<evalFrame, speed, dist, now, runner, metrics, start_time,
                   stuck_start_time, elapsed, step, speed_history,
                   histVars, callVars>>

\* ego_vehicle = self.runner.get_ego_vehicle(); if not ego_vehicle: return
get_ego ==
    /\ pc = "get_ego"
    /\ pc' = IF ego_vehicle = None THEN "finally" ELSE "init"
    /\ UNCHANGED <<evalFrame, speed, dist, now, runner, model, metrics, start_time,
                   stuck_start_time, elapsed, step, speed_history,
                   histVars, callVars>>

\* "Initialize": self.start_time = time.time()
init ==
    /\ pc = "init"
    /\ start_time' = now
    /\ pc' = "loop_top"
    /\ UNCHANGED <<evalFrame, speed, dist, now, runner, model, metrics,
                   stuck_start_time, elapsed, step, speed_history,
                   histVars, callVars>>

\* A timeout test that fires already when elapsed equals the timeout.
timeout_check_at(e) == e >= Timeout

\* A timeout test that fires one clock unit late.
timeout_check_late(e) == e > Timeout + 1

\* The exit that the timeout test decides: elapsed > timeout
timeout_check(e) == e > Timeout

\* Top of "while True": read the clock, then the timeout and the stuck tests.
loop_top ==
    /\ pc = "loop_top"
    /\ elapsed' = now - start_time
    /\ atTop' = <<nUpdates, nControls, nTicks>>
    /\ IF timeout_check(elapsed')
       THEN /\ metrics' = [metrics EXCEPT !.timeout_reached = TRUE]
            /\ loopExit' = "timeout"
            /\ pc' = "finalize"
       ELSE /\ UNCHANGED metrics
            /\ IF metrics.stuck
               THEN loopExit' = "stuck" /\ pc' = "finalize"
               ELSE UNCHANGED loopExit /\ pc' = "loop_completion"
    /\ UNCHANGED <<loopTopFrame, speed, dist, now, runner, model, start_time,
                   stuck_start_time, step, speed_history,
                   interrupted, nUpdates, nControls, nTicks, nFinalize,
                   cleanupCalls, samples, cleanupLog, callVars>>

\* if self.check_completion(): self.metrics.completed = True; break
loop_completion ==
    /\ pc = "loop_completion"
    /\ IF check_completion
       THEN /\ metrics' = [metrics EXCEPT !.completed = TRUE]
            /\ loopExit' = "completed"
            /\ pc' = "finalize"
       ELSE /\ UNCHANGED <<metrics, loopExit>>
            /\ pc' = "loop_update"
    /\ UNCHANGED <<evalFrame, speed, dist, now, runner, model, start_time,
                   stuck_start_time, elapsed, step, speed_history,
                   interrupted, nUpdates, nControls, nTicks, nFinalize,
                   cleanupCalls, samples, cleanupLog, callVars>>

\* self.update_metrics(ego_vehicle, elapsed)
loop_update ==
    /\ pc = "loop_update"
    /\ update_metrics(speed, dist, elapsed)
    /\ nUpdates' = nUpdates + 1
    /\ pc' = "loop_control"
    /\ UNCHANGED <<evalFrame, speed, dist, now, runner, model, start_time,
                   elapsed, step, interrupted, loopExit, nControls, nTicks,
                   nFinalize, cleanupCalls, samples, cleanupLog, restVars>>

\* if self.model: image = self.get_camera_image(); if image is not None:
\* steer, throttle, brake = self.compute_control(image, speed, (0, 10), 3);
\* ego_vehicle.apply_control(control)
loop_control ==
    /\ pc = "loop_control"
    /\ IF model /\ get_camera_image # None
       THEN \E forward \in Forwards :
               /\ control' = Some(ControlCall(model, speed, LaneFollow, forward))
               /\ nControls' = nControls + 1
       ELSE UNCHANGED <<control, nControls>>
    /\ pc' = "loop_tick"
    /\ UNCHANGED <<evalFrame, speed, dist, now, runner, model, metrics, start_time,
                   stuck_start_time, elapsed, step, speed_history,
                   interrupted, loopExit, nUpdates, nTicks, nFinalize,
                   cleanupCalls, samples, cleanupLog, injections, draws,
                   locatorVars, schemaVars, accelVars, eventVars>>

\* self.runner.world.tick(); step += 1: the simulator moves the ego.
loop_tick ==
    /\ pc = "loop_tick"
    /\ \E s \in SpeedValues, d \in DistValues : speed' = s /\ dist' = d
    /\ nTicks' = nTicks + 1
    /\ step' = step + 1
    /\ pc' = "loop_sleep"
    /\ UNCHANGED <<evalFrame, now, runner, model, metrics, start_time,
                   stuck_start_time, elapsed, speed_history,
                   interrupted, loopExit, nUpdates, nControls, nFinalize,
                   cleanupCalls, samples, cleanupLog, callVars>>

\* time.sleep(0.05): the clock advances.
loop_sleep ==
    /\ pc = "loop_sleep"
    /\ \E d \in 1..MaxDelta : now' = now + d
    /\ pc' = "loop_top"
    /\ UNCHANGED <<evalFrame, speed, dist, runner, model, metrics, start_time,
                   stuck_start_time, elapsed, step, speed_history,
                   histVars, callVars>>

\* "Finalize": elapsed = time.time() - self.start_time; self.finalize_metrics(elapsed)
finalize ==
    /\ pc = "finalize"
    /\ elapsed' = now - start_time
    /\ metrics' = finalize_metrics(metrics, elapsed')
    /\ nFinalize' = nFinalize + 1
    /\ pc' = "finalize_rest"
    /\ UNCHANGED <<evalFrame, speed, dist, now, runner, model, start_time,
                   stuck_start_time, step, speed_history,
                   interrupted, loopExit, nUpdates, nControls, nTicks,
                   cleanupCalls, samples, cleanupLog, callVars>>

\* finalize_metrics, from its second read of the collision log on.
finalize_rest ==
    /\ pc = "finalize_rest"
    /\ metrics' = finalize_metrics_rest(metrics)
    /\ pc' = "return"
    /\ UNCHANGED <<evalFrame, speed, dist, now, runner, model, start_time,
                   stuck_start_time, elapsed, step, speed_history,
                   histVars, callVars>>

\* return self.metrics (the finally clause runs next)
return ==
    /\ pc = "return"
    /\ pc' = "finally"
    /\ UNCHANGED <<evalFrame, speed, dist, now, runner, model, metrics, start_time,
                   stuck_start_time, elapsed, step, speed_history,
                   histVars, callVars>>

\* What a handler records about the loop it left.
LeftLoop(how) == IF pc \in LoopPcs THEN how ELSE loopExit

\* The user's interrupt arrives while the try block runs.
KeyboardInterrupt ==
    /\ caller = "evaluator"
    /\ pc \in TryPcs
    /\ ~interrupted
    /\ interrupted' = TRUE
    /\ loopExit' = LeftLoop("interrupt")
    /\ pc' = "except_interrupt"
    /\ UNCHANGED <<evalFrame, speed, dist, now, runner, model, metrics, start_time,
                   stuck_start_time, elapsed, step, speed_history,
                   nUpdates, nControls, nTicks, nFinalize, cleanupCalls, samples, cleanupLog, callVars>>

\* A simulator call of run_evaluation raises: ego_vehicle.get_location(),
\* get_velocity(), world.tick().
RaisingPcs == {"init", "loop_completion", "loop_update", "loop_tick"}

raise_exception ==
    /\ pc \in RaisingPcs
    /\ loopExit' = LeftLoop("exception")
    /\ pc' = "except_exception"
    /\ UNCHANGED <<evalFrame, speed, dist, now, runner, model, metrics, start_time,
                   stuck_start_time, elapsed, step, speed_history,
                   interrupted, nUpdates, nControls, nTicks, nFinalize,
                   cleanupCalls, samples, cleanupLog, callVars>>

\* except KeyboardInterrupt: elapsed = time.time() - self.start_time;
\* self.finalize_metrics(elapsed); return self.metrics
except_interrupt ==
    /\ pc = "except_interrupt"
    /\ elapsed' = now - start_time
    /\ metrics' = finalize_metrics(metrics, elapsed')
    /\ nFinalize' = nFinalize + 1
    /\ pc' = "except_interrupt_rest"
    /\ UNCHANGED <<evalFrame, speed, dist, now, runner, model, start_time,
                   stuck_start_time, step, speed_history,
                   interrupted, loopExit, nUpdates, nControls, nTicks,
                   cleanupCalls, samples, cleanupLog, callVars>>

\* The handler's finalize_metrics, from its second read of the collision log
\* on; return self.metrics.
except_interrupt_rest ==
    /\ pc = "except_interrupt_rest"
    /\ metrics' = finalize_metrics_rest(metrics)
    /\ pc' = "finally"
    /\ UNCHANGED <<evalFrame, speed, dist, now, runner, model, start_time,
                   stuck_start_time, elapsed, step, speed_history,
                   histVars, callVars>>

\* except Exception: log; return self.metrics
except_exception ==
    /\ pc = "except_exception"
    /\ pc' = "finally"
    /\ UNCHANGED <<evalFrame, speed, dist, now, runner, model, metrics, start_time,
                   stuck_start_time, elapsed, step, speed_history,
                   histVars, callVars>>

\* ------------------------------------------- ScenarioRunner.cleanup

\* A cleanup that destroys without asking is_alive.
should_destroy_always(a) == TRUE

\* cleanup's guard before a destroy: "if actor.is_alive"
should_destroy(a) == is_alive(a)

\* actor.destroy()
destroy(a) ==
    /\ alive' = alive \ {a}
    /\ destroyLog' = Append(destroyLog, a)

\* One iteration of a "for actor in list" of cleanup.
visit(a) ==
    IF should_destroy(a) THEN destroy(a) ELSE UNCHANGED <<alive, destroyLog>>

\* A cleanup that keeps its lists.
clear_keep(list) == list

\* list.clear()
clear(list) == <<>>

cleanupFrame == <<cfg, caller, client, world, destination, result, reported, stages, target_count,
                  spawned, tries, actors, kills, speed, dist, now, runner, model,
                  metrics, start_time, stuck_start_time, elapsed, step,
                  speed_history, mainVars, interrupted, loopExit,
                  nUpdates, nControls, nTicks, atTop, nFinalize, samples, callVars>>

\* cleanup is entered: "Cleaning up actors..."
begin_cleanup ==
    /\ ci' = 1
    /\ cleanupLog' = Append(cleanupLog, [finalized |-> nFinalize > 0,
                                         from |-> Len(destroyLog)])
    /\ pc' = "cleanup_sensors"

cleanup_sensors ==
    /\ pc = "cleanup_sensors"
    /\ IF ci <= Len(sensors)
       THEN /\ visit(sensors[ci])
            /\ ci' = ci + 1
            /\ UNCHANGED <<sensors, pc>>
       ELSE /\ sensors' = clear(sensors)
            /\ ci' = 1
            /\ pc' = "cleanup_controllers"
            /\ UNCHANGED <<alive, destroyLog>>
    /\ UNCHANGED <<cleanupFrame, ego_vehicle, vehicles, pedestrians,
                   pedestrian_controllers, cleanupCalls, cleanupLog>>

\* controller.stop(); controller.destroy()
cleanup_controllers ==
    /\ pc = "cleanup_controllers"
    /\ IF ci <= Len(pedestrian_controllers)
       THEN /\ visit(pedestrian_controllers[ci])
            /\ ci' = ci + 1
            /\ UNCHANGED <<pedestrian_controllers, pc>>
       ELSE /\ pedestrian_controllers' = clear(pedestrian_controllers)
            /\ ci' = 1
            /\ pc' = "cleanup_pedestrians"
            /\ UNCHANGED <<alive, destroyLog>>
    /\ UNCHANGED <<cleanupFrame, ego_vehicle, vehicles, pedestrians, sensors,
                   cleanupCalls, cleanupLog>>

cleanup_pedestrians ==
    /\ pc = "cleanup_pedestrians"
    /\ IF ci <= Len(pedestrians)
       THEN /\ visit(pedestrians[ci])
            /\ ci' = ci + 1
            /\ UNCHANGED <<pedestrians, pc>>
       ELSE /\ pedestrians' = clear(pedestrians)
            /\ ci' = 1
            /\ pc' = "cleanup_vehicles"
            /\ UNCHANGED <<alive, destroyLog>>
    /\ UNCHANGED <<cleanupFrame, ego_vehicle, vehicles, pedestrian_controllers,
                   sensors, cleanupCalls, cleanupLog>>

cleanup_vehicles ==
    /\ pc = "cleanup_vehicles"
    /\ IF ci <= Len(vehicles)
       THEN /\ visit(vehicles[ci])
            /\ ci' = ci + 1
            /\ UNCHANGED <<vehicles, pc>>
       ELSE /\ vehicles' = clear(vehicles)
            /\ ci' = 1
            /\ pc' = "cleanup_ego"
            /\ UNCHANGED <<alive, destroyLog>>
    /\ UNCHANGED <<cleanupFrame, ego_vehicle, pedestrians, pedestrian_controllers,
                   sensors, cleanupCalls, cleanupLog>>

\* if self.ego_vehicle and self.ego_vehicle.is_alive: destroy; self.ego_vehicle = None
\* "Cleanup complete": back to the caller.
cleanup_ego ==
    /\ pc = "cleanup_ego"
    /\ IF ego_vehicle # None /\ should_destroy(Get(ego_vehicle))
       THEN destroy(Get(ego_vehicle))
       ELSE UNCHANGED <<alive, destroyLog>>
    /\ ego_vehicle' = None
    /\ cleanupCalls' = cleanupCalls + 1
    /\ pc' = IF caller = "evaluator" /\ report = None THEN "save_results" ELSE "done"
    /\ UNCHANGED <<cleanupFrame, vehicles, pedestrians, pedestrian_controllers,
                   sensors, ci, cleanupLog>>

cleanup ==
    \/ cleanup_sensors
    \/ cleanup_controllers
    \/ cleanup_pedestrians
    \/ cleanup_vehicles
    \/ cleanup_ego

\* A finally clause that cleans up only a session that became ready.
finally_when_ready ==
    /\ pc = "finally"
    /\ IF runner /\ result = "ready"
       THEN begin_cleanup
       ELSE pc' = "save_results" /\ UNCHANGED <<ci, cleanupLog>>
    /\ UNCHANGED <<cleanupFrame, ego_vehicle, vehicles, pedestrians,
                   pedestrian_controllers, sensors, alive, destroyLog,
                   cleanupCalls>>

\* run_evaluation: finally: if self.runner: self.runner.cleanup()
finally ==
    /\ pc = "finally"
    /\ IF runner
       THEN begin_cleanup
       ELSE pc' = "save_results" /\ UNCHANGED <<ci, cleanupLog>>
    /\ UNCHANGED <<cleanupFrame, ego_vehicle, vehicles, pedestrians,
                   pedestrian_controllers, sensors, alive, destroyLog,
                   cleanupCalls>>

\* A client that holds the session calls cleanup once more.
cleanup_again ==
    /\ pc = "done"
    /\ runner
    /\ cleanupCalls < MaxCleanupCalls
    /\ begin_cleanup
    /\ UNCHANGED <<cleanupFrame, ego_vehicle, vehicles, pedestrians,
                   pedestrian_controllers, sensors, alive, destroyLog,
                   cleanupCalls>>

\* ------------------------------------------------------------------ main

\* save_results: the JSON report: the scenario, the metrics, a timestamp.
save_results ==
    /\ pc = "save_results"
    /\ report' = Some([scenario_config |-> "name", metrics |-> metrics,
                       timestamp |-> now])
    /\ exitCode' = Some(0)
    /\ pc' = "done"
    /\ UNCHANGED <<cfg, caller, sessionVars, simVars, runner, model, metrics, start_time,
                   stuck_start_time, elapsed, step, speed_history,
                   histVars, callVars>>

run_evaluation ==
    \/ create_runner
    \/ run
    \/ setup_check
    \/ load_model
    \/ get_ego
    \/ init
    \/ loop_top
    \/ loop_completion
    \/ loop_update
    \/ loop_control
    \/ loop_tick
    \/ loop_sleep
    \/ finalize
    \/ finalize_rest
    \/ return
    \/ raise_exception
    \/ except_interrupt
    \/ except_interrupt_rest
    \/ except_exception
    \/ finally
    \/ cleanup

Program == run_evaluation \/ save_results

\* ------------------------------------------------ scenario_runner.main

\* result = runner.run(); if result.get('status') == 'ready': while True: sleep
main_result ==
    /\ pc = "run_returned"
    /\ caller = "runner_main"
    /\ pc' = IF result = "ready" THEN "main_wait" ELSE "main_finally"
    /\ UNCHANGED <<cfg, caller, sessionVars, simVars, runner, model, metrics,
                   start_time, stuck_start_time, elapsed, step, speed_history,
                   mainVars, histVars, callVars>>

\* except KeyboardInterrupt: the interrupt arrives in run() or in the wait loop.
main_interrupt ==
    /\ caller = "runner_main"
    /\ pc \in (SetupPcs \ {"start"}) \cup {"main_wait"}
    /\ interrupted' = TRUE
    /\ pc' = "main_finally"
    /\ UNCHANGED <<cfg, caller, sessionVars, simVars, runner, model, metrics,
                   start_time, stuck_start_time, elapsed, step, speed_history,
                   mainVars, loopExit, nUpdates, nControls, nTicks, atTop,
                   nFinalize, cleanupCalls, samples, cleanupLog, callVars>>

\* finally: runner.cleanup()
main_finally ==
    /\ pc = "main_finally"
    /\ begin_cleanup
    /\ UNCHANGED <<cleanupFrame, ego_vehicle, vehicles, pedestrians,
                   pedestrian_controllers, sensors, alive, destroyLog,
                   cleanupCalls>>

runner_main ==
    \/ create_runner
    \/ run
    \/ spawn_traffic
    \/ main_result
    \/ main_interrupt
    \/ main_finally
    \/ cleanup

\* ------------------------------------------- a stage called a second time

\* A client that constructs a session and calls run() on it.
RepeatInit ==
    /\ caller = "client"
    /\ \E v \in Densities, p \in Densities : cfg = ScenarioConfig(v, p)
    /\ Fresh

\* The first statement of each method a client calls on a ready session.
EntryOf(method) ==
    CASE method = "run" -> "connect"
      [] method = "spawn_ego_vehicle" -> "spawn_ego_vehicle"
      [] method = "spawn_traffic" -> "spawn_vehicles"
      [] method = "setup_sensors" -> "setup_sensors"

\* The client calls run(), or one of the stage methods, on the session that
\* its first run() left ready.
call_again ==
    /\ caller = "client"
    /\ pc = "run_returned" /\ result = "ready"
    /\ \E method \in StageMethods \cup {"run"} :
          /\ caller' = method
          /\ pc' = EntryOf(method)
    /\ UNCHANGED <<cfg, sessionVars, simVars, runner, model, metrics, start_time,
                   stuck_start_time, elapsed, step, speed_history, mainVars,
                   histVars, callVars>>

RepeatNext ==
    \/ create_runner
    \/ run
    \/ spawn_traffic
    \/ call_again

RepeatSpec == RepeatInit /\ [][RepeatNext]_vars

SessionNext ==
    \/ runner_main
    \/ cleanup_again
    \/ EnvKill

SessionSpec == SessionInit /\ [][SessionNext]_vars

\* ------------------------------------------------- the metrics alone

\* An evaluator whose session is ready, before its first update_metrics.
MetricsInit ==
    /\ caller = "metrics"
    /\ cfg = ScenarioConfig("none", "none")
    /\ client = TRUE /\ world = TRUE
    /\ ego_vehicle = Some(1)
    /\ vehicles = <<>> /\ pedestrians = <<>>
    /\ pedestrian_controllers = <<>> /\ sensors = <<2, 3>>
    /\ destination = TRUE
    /\ result = "ready" /\ reported = Some(Counts(0, 0)) /\ stages = <<>>
    /\ target_count = 0 /\ spawned = 0 /\ tries = 0 /\ ci = 1
    /\ actors = <<"ego", "sensor", "sensor">> /\ alive = {1, 2, 3}
    /\ kills = 0 /\ destroyLog = <<>>
    /\ speed = 0 /\ dist = CompletionRadius
    /\ now = ClockAtStart
    /\ pc = "loop_update"
    /\ runner = TRUE /\ model = FALSE
    /\ metrics = EvaluationMetrics
    /\ start_time = ClockAtStart /\ stuck_start_time = None
    /\ elapsed = 0 /\ step = 0
    /\ speed_history = <<>>
    /\ report = None /\ exitCode = None
    /\ interrupted = FALSE /\ loopExit = "none"
    /\ nUpdates = 0 /\ nControls = 0 /\ nTicks = 0 /\ nFinalize = 0
    /\ atTop = <<0, 0, 0>>
    /\ cleanupCalls = 0 /\ samples = <<>> /\ cleanupLog = <<>>
    /\ injections = <<>> /\ draws = <<>>
    /\ town = Town /\ maneuver = ManeuverConfig /\ plan = None
    /\ found_intersections = None /\ pair_angle_diff = None
    /\ control = None
    /\ data = None /\ scenario = None
    /\ acceleration_history = <<>> /\ last_velocity = None /\ last_time = 0
    /\ collisions = <<>> /\ lane_invasions = <<>>
    /\ red_lights_run = 0 /\ lights_run = 0 /\ callbacks = <<0, 0>>

\* update_metrics is called with a sample of any speed, taken dt after the
\* sample before it.
update_call ==
    /\ caller = "metrics"
    /\ Len(samples) < MaxSamples
    /\ \E s \in SpeedValues, d \in DistValues, dt \in 0..MaxDelta :
          /\ speed' = s
          /\ dist' = d
          /\ elapsed' = elapsed + dt
          /\ now' = now + dt
          /\ update_metrics(s, d, elapsed')
          /\ samples' = Append(samples, <<elapsed', s>>)
    /\ nUpdates' = nUpdates + 1
    /\ UNCHANGED <<cfg, caller, sessionVars, actors, alive, kills, destroyLog,
                   pc, runner, model, start_time, step, mainVars, interrupted,
                   loopExit, nControls, nTicks, atTop, nFinalize, cleanupCalls,
                   cleanupLog, restVars>>

MetricsNext == update_call

MetricsSpec == MetricsInit /\ [][MetricsNext]_vars

\* ------------------------------------------------- the locator alone

\* Lists of at most two elements of S.
UpToTwo(S) == UNION {[1..n -> S] : n \in 0..2}

\* (entry, exit) pairs going straight or turning left by 90 degrees, with
\* or without the waypoints before the entry and after the exit.
Pairs ==
    {[entry_yaw |-> 0, exit_yaw |-> y, has_previous |-> w[1], has_next |-> w[2]] :
       y \in {0, 270}, w \in {<<TRUE, TRUE>>, <<FALSE, TRUE>>, <<TRUE, FALSE>>}}

\* Every pair of headings in whole degrees, its waypoints present.
PairsOfAllAngles ==
    {[entry_yaw |-> e, exit_yaw |-> y, has_previous |-> TRUE, has_next |-> TRUE] :
       e \in {0, 350}, y \in 0..359}

Junctions(pairs) == [has_signal : BOOLEAN, pairs : pairs]

\* Maps of no or two spawn points and up to two junctions of up to two
\* pairs, and maps of one junction of one pair of any angle.
\* The map of n spawn points and junctions js, each sampled by one waypoint.
SampledOnce(n, js) ==
    [spawn_points |-> n, junctions |-> js, waypoints |-> [j \in 1..Len(js) |-> j]]

Towns ==
    {SampledOnce(n, js) : n \in {0, 2}, js \in UpToTwo(Junctions(UpToTwo(Pairs)))}
    \cup
    {SampledOnce(2, <<[has_signal |-> TRUE, pairs |-> <<p>>]>>) :
       p \in PairsOfAllAngles}

ManeuverConfigs ==
    [type : ManeuverTypes, location : LocationTypes, spawn_point_index : {-1, 0, 2}]

\* A session that run() brought to spawn_ego_vehicle, on any map and request.
LocatorInit ==
    /\ caller = "locator"
    /\ cfg = ScenarioConfig("none", "none")
    /\ client = TRUE /\ world = TRUE
    /\ ego_vehicle = None
    /\ vehicles = <<>> /\ pedestrians = <<>>
    /\ pedestrian_controllers = <<>> /\ sensors = <<>>
    /\ destination = FALSE
    /\ result = "none" /\ reported = None
    /\ stages = <<"connect", "load_world", "apply_settings", "spawn_ego_vehicle">>
    /\ target_count = 0 /\ spawned = 0 /\ tries = 0 /\ ci = 1
    /\ actors = <<>> /\ alive = {}
    /\ kills = 0 /\ destroyLog = <<>>
    /\ speed = 0 /\ dist = CompletionRadius
    /\ now = ClockAtStart
    /\ pc = "spawn_ego_vehicle"
    /\ runner = TRUE /\ model = FALSE
    /\ metrics = EvaluationMetrics
    /\ start_time = 0 /\ stuck_start_time = None
    /\ elapsed = 0 /\ step = 0
    /\ speed_history = <<>>
    /\ report = None /\ exitCode = None
    /\ interrupted = FALSE /\ loopExit = "none"
    /\ nUpdates = 0 /\ nControls = 0 /\ nTicks = 0 /\ nFinalize = 0
    /\ atTop = <<0, 0, 0>>
    /\ cleanupCalls = 0 /\ samples = <<>> /\ cleanupLog = <<>>
    /\ injections = <<>> /\ draws = <<>>
    /\ town \in Towns /\ maneuver \in ManeuverConfigs /\ plan = None
    /\ found_intersections = None /\ pair_angle_diff = None
    /\ control = None
    /\ data = None /\ scenario = None
    /\ acceleration_history = <<>> /\ last_velocity = None /\ last_time = 0
    /\ collisions = <<>> /\ lane_invasions = <<>>
    /\ red_lights_run = 0 /\ lights_run = 0 /\ callbacks = <<0, 0>>

\* self.spawn_point, self.destination = self.find_maneuver_location()
locate ==
    /\ caller = "locator"
    /\ plan = None
    /\ \E choice \in 1..(IF town.spawn_points = 0 THEN 1 ELSE town.spawn_points) :
          plan' = Some(find_maneuver_location(town, maneuver, choice))
    /\ UNCHANGED <<cfg, caller, sessionVars, simVars, evalVars, mainVars, histVars,
                   injections, draws, town, maneuver, found_intersections,
                   pair_angle_diff, control, schemaVars, accelVars, eventVars>>

LocatorNext == locate

LocatorSpec == LocatorInit /\ [][LocatorNext]_vars

\* ------------------------------------------------ the schema alone

\* What a dataclass constructor gives: the object, or the ValueError its
\* __post_init__ raises.
Constructed(v) == [raised |-> FALSE, value |-> v]
ValueError(v) == [raised |-> TRUE, value |-> v]

\* not 0.0 <= value <= 1.0, on values in units of 0.5.
out_of_unit_range(value) == ~(0 <= value /\ value <= 2)

\* VehicleBehaviors.__post_init__: every named probability is checked.
VehicleBehaviors_post_init(self) ==
    IF \E attr \in VehicleBehaviorNames : out_of_unit_range(self[attr])
    THEN ValueError(self) ELSE Constructed(self)

\* PedestrianBehaviors.__post_init__
PedestrianBehaviors_post_init(self) ==
    IF \E attr \in PedestrianBehaviorNames : out_of_unit_range(self[attr])
    THEN ValueError(self) ELSE Constructed(self)

\* VehicleTrafficConfig.__post_init__: the behaviors dict is converted, then
\* rule_break_probability is checked.
VehicleTrafficConfig_post_init(self) ==
    LET behaviors == VehicleBehaviors_post_init(self.behaviors) IN
    IF behaviors.raised \/ out_of_unit_range(self.rule_break_probability)
    THEN ValueError(self) ELSE Constructed(self)

\* PedestrianTrafficConfig.__post_init__
PedestrianTrafficConfig_post_init(self) ==
    LET behaviors == PedestrianBehaviors_post_init(self.behaviors) IN
    IF behaviors.raised \/ out_of_unit_range(self.rule_break_probability)
    THEN ValueError(self) ELSE Constructed(self)

\* TrafficConfig.__post_init__: both dicts are converted.
TrafficConfig_post_init(self) ==
    IF \/ VehicleTrafficConfig_post_init(self.vehicles).raised
       \/ PedestrianTrafficConfig_post_init(self.pedestrians).raised
    THEN ValueError(self) ELSE Constructed(self)

\* RoadConfig without its __post_init__.
RoadConfig_unchecked(self) == Constructed(self)

\* RoadConfig.__post_init__: friction is checked.
RoadConfig_post_init(self) ==
    IF out_of_unit_range(self.friction)
    THEN ValueError(self) ELSE Constructed(self)

\* ScenarioConfig.__post_init__ on the dicts from_yaml passes: the traffic
\* dict and the road dict are converted; an exception of either leaves no
\* ScenarioConfig.
ScenarioConfig_post_init(self) ==
    IF \/ TrafficConfig_post_init(self.traffic).raised
       \/ RoadConfig_post_init(self.road).raised
    THEN ValueError(self) ELSE Constructed(self)

\* The values a YAML file can give a probability or the friction, in units of
\* 0.5: from -0.5 to 1.5.
ConfigValues == {-1, 0, 1, 2, 3}

FieldNames == VehicleBehaviorNames \union PedestrianBehaviorNames \union
              {"vehicles.rule_break_probability",
               "pedestrians.rule_break_probability", "friction"}

\* The dataclass default of a field: friction 1.0, every probability 0.0.
DefaultOf(name) == IF name = "friction" THEN 2 ELSE 0

\* The dict yaml.safe_load gives from_yaml, for the values f of the fields.
YamlData(f) ==
    [traffic |->
        [vehicles |->
            [rule_break_probability |-> f["vehicles.rule_break_probability"],
             behaviors |-> [n \in VehicleBehaviorNames |-> f[n]]],
         pedestrians |->
            [rule_break_probability |-> f["pedestrians.rule_break_probability"],
             behaviors |-> [n \in PedestrianBehaviorNames |-> f[n]]]],
     road |-> [friction |-> f["friction"]]]

\* Every file that departs from the defaults in at most two fields.
YamlFiles ==
    {YamlData([n \in FieldNames |->
                 IF n = n1 THEN v1 ELSE IF n = n2 THEN v2 ELSE DefaultOf(n)]) :
        <<n1, v1, n2, v2>> \in
            FieldNames \X ConfigValues \X FieldNames \X ConfigValues}

SchemaInit ==
    /\ caller = "schema"
    /\ cfg = ScenarioConfig("none", "none")
    /\ client = FALSE /\ world = FALSE
    /\ ego_vehicle = None
    /\ vehicles = <<>> /\ pedestrians = <<>>
    /\ pedestrian_controllers = <<>> /\ sensors = <<>>
    /\ destination = FALSE
    /\ result = "none" /\ reported = None /\ stages = <<>>
    /\ target_count = 0 /\ spawned = 0 /\ tries = 0 /\ ci = 1
    /\ actors = <<>> /\ alive = {}
    /\ kills = 0 /\ destroyLog = <<>>
    /\ speed = 0 /\ dist = CompletionRadius
    /\ now = ClockAtStart
    /\ pc = "start"
    /\ runner = FALSE /\ model = FALSE
    /\ metrics = EvaluationMetrics
    /\ start_time = 0 /\ stuck_start_time = None
    /\ elapsed = 0 /\ step = 0
    /\ speed_history = <<>>
    /\ report = None /\ exitCode = None
    /\ interrupted = FALSE /\ loopExit = "none"
    /\ nUpdates = 0 /\ nControls = 0 /\ nTicks = 0 /\ nFinalize = 0
    /\ atTop = <<0, 0, 0>>
    /\ cleanupCalls = 0 /\ samples = <<>> /\ cleanupLog = <<>>
    /\ injections = <<>> /\ draws = <<>>
    /\ town = Town /\ maneuver = ManeuverConfig /\ plan = None
    /\ found_intersections = None /\ pair_angle_diff = None
    /\ control = None
    /\ data \in {Some(d) : d \in YamlFiles} /\ scenario = None
    /\ acceleration_history = <<>> /\ last_velocity = None /\ last_time = 0
    /\ collisions = <<>> /\ lane_invasions = <<>>
    /\ red_lights_run = 0 /\ lights_run = 0 /\ callbacks = <<0, 0>>

\* from_yaml: cls(..., traffic=data.get('traffic', {}), road=data.get('road', {}))
from_yaml ==
    /\ caller = "schema"
    /\ scenario = None
    /\ scenario' = Some(ScenarioConfig_post_init(Get(data)))
    /\ UNCHANGED <<cfg, caller, sessionVars, simVars, evalVars, mainVars, histVars,
                   injections, draws, locatorVars, control, data, accelVars, eventVars>>

SchemaNext == from_yaml

SchemaSpec == SchemaInit /\ [][SchemaNext]_vars

\* ------------------------------------------- compute_control alone

\* An evaluator in its loop, about to compute a control, with or without a
\* model.
ControlInit ==
    /\ caller = "control"
    /\ cfg = ScenarioConfig("none", "none")
    /\ client = TRUE /\ world = TRUE
    /\ ego_vehicle = Some(1)
    /\ vehicles = <<>> /\ pedestrians = <<>>
    /\ pedestrian_controllers = <<>> /\ sensors = <<2, 3>>
    /\ destination = TRUE
    /\ result = "ready" /\ reported = Some(Counts(0, 0)) /\ stages = <<>>
    /\ target_count = 0 /\ spawned = 0 /\ tries = 0 /\ ci = 1
    /\ actors = <<"ego", "sensor", "sensor">> /\ alive = {1, 2, 3}
    /\ kills = 0 /\ destroyLog = <<>>
    /\ speed \in SpeedValues /\ dist = CompletionRadius
    /\ now = ClockAtStart
    /\ pc = "loop_control"
    /\ runner = TRUE /\ model \in BOOLEAN
    /\ metrics = EvaluationMetrics
    /\ start_time = ClockAtStart /\ stuck_start_time = None
    /\ elapsed = 0 /\ step = 0
    /\ speed_history = <<>>
    /\ report = None /\ exitCode = None
    /\ interrupted = FALSE /\ loopExit = "none"
    /\ nUpdates = 0 /\ nControls = 0 /\ nTicks = 0 /\ nFinalize = 0
    /\ atTop = <<0, 0, 0>>
    /\ cleanupCalls = 0 /\ samples = <<>> /\ cleanupLog = <<>>
    /\ injections = <<>> /\ draws = <<>>
    /\ town = Town /\ maneuver = ManeuverConfig /\ plan = None
    /\ found_intersections = None /\ pair_angle_diff = None
    /\ control = None
    /\ data = None /\ scenario = None
    /\ acceleration_history = <<>> /\ last_velocity = None /\ last_time = 0
    /\ collisions = <<>> /\ lane_invasions = <<>>
    /\ red_lights_run = 0 /\ lights_run = 0 /\ callbacks = <<0, 0>>

\* compute_control is called with any command and any outcome of the forward
\* pass.
compute_control_call ==
    /\ caller = "control"
    /\ control = None
    /\ \E command \in Commands, forward \in Forwards :
          control' = Some(ControlCall(model, speed, command, forward))
    /\ UNCHANGED <<cfg, caller, sessionVars, simVars, evalVars, mainVars, histVars,
                   injections, draws, locatorVars, schemaVars, accelVars, eventVars>>

ControlNext == compute_control_call

ControlSpec == ControlInit /\ [][ControlNext]_vars

\* ------------------------------------------ _find_intersections alone

\* Maps of two junctions without pairs, sampled by up to MaxWaypoints
\* waypoints, each on a road or in one of the junctions.
SampledTowns ==
    {[spawn_points |-> 1,
      junctions |-> <<[has_signal |-> a, pairs |-> <<>>],
                      [has_signal |-> b, pairs |-> <<>>]>>,
      waypoints |-> wps] :
        a \in BOOLEAN, b \in BOOLEAN,
        wps \in UNION {[1..n -> 0..2] : n \in 0..MaxWaypoints}}

IntersectionsInit ==
    /\ caller = "intersections"
    /\ cfg = ScenarioConfig("none", "none")
    /\ client = TRUE /\ world = TRUE
    /\ ego_vehicle = None
    /\ vehicles = <<>> /\ pedestrians = <<>>
    /\ pedestrian_controllers = <<>> /\ sensors = <<>>
    /\ destination = FALSE
    /\ result = "none" /\ reported = None
    /\ stages = <<"connect", "load_world", "apply_settings", "spawn_ego_vehicle">>
    /\ target_count = 0 /\ spawned = 0 /\ tries = 0 /\ ci = 1
    /\ actors = <<>> /\ alive = {} /\ kills = 0 /\ destroyLog = <<>>
    /\ speed = 0 /\ dist = CompletionRadius
    /\ now = ClockAtStart
    /\ pc = "spawn_ego_vehicle"
    /\ runner = TRUE /\ model = FALSE
    /\ metrics = EvaluationMetrics
    /\ start_time = 0 /\ stuck_start_time = None /\ elapsed = 0 /\ step = 0
    /\ speed_history = <<>>
    /\ report = None /\ exitCode = None
    /\ interrupted = FALSE /\ loopExit = "none"
    /\ nUpdates = 0 /\ nControls = 0 /\ nTicks = 0 /\ nFinalize = 0
    /\ atTop = <<0, 0, 0>>
    /\ cleanupCalls = 0 /\ samples = <<>> /\ cleanupLog = <<>>
    /\ injections = <<>> /\ draws = <<>>
    /\ town \in SampledTowns
    /\ maneuver \in [type : {"straight"}, location : LocationTypes,
                      spawn_point_index : {-1}]
    /\ plan = None
    /\ found_intersections = None /\ pair_angle_diff = None
    /\ control = None
    /\ data = None /\ scenario = None
    /\ acceleration_history = <<>> /\ last_velocity = None /\ last_time = 0
    /\ collisions = <<>> /\ lane_invasions = <<>>
    /\ red_lights_run = 0 /\ lights_run = 0 /\ callbacks = <<0, 0>>

\* intersections = self._find_intersections(location_type)
find_intersections_call ==
    /\ caller = "intersections"
    /\ found_intersections = None
    /\ found_intersections' = Some(find_intersections(town, maneuver.location))
    /\ UNCHANGED <<cfg, caller, sessionVars, simVars, evalVars, mainVars, histVars,
                   injections, draws, town, maneuver, plan, pair_angle_diff, control,
                   schemaVars, accelVars, eventVars>>

IntersectionsNext == find_intersections_call

IntersectionsSpec == IntersectionsInit /\ [][IntersectionsNext]_vars

\* ------------------------------------------------ the turn angle alone

\* Maps of one junction of one traversal pair, the entry heading one of four
\* and the exit heading any whole degree a transform can carry.
TownsOfOnePair ==
    {SampledOnce(2, <<[has_signal |-> TRUE,
                       pairs |-> <<[entry_yaw |-> e, exit_yaw |-> y,
                                    has_previous |-> TRUE, has_next |-> TRUE]>>]>>) :
       e \in {-170, 0, 90, 350}, y \in -180..359}

\* A session inside _find_maneuver_spawn_at_intersection, at the pair of the
\* junction.
AngleInit ==
    /\ caller = "angles"
    /\ cfg = ScenarioConfig("none", "none")
    /\ client = TRUE /\ world = TRUE
    /\ ego_vehicle = None
    /\ vehicles = <<>> /\ pedestrians = <<>>
    /\ pedestrian_controllers = <<>> /\ sensors = <<>>
    /\ destination = FALSE
    /\ result = "none" /\ reported = None
    /\ stages = <<"connect", "load_world", "apply_settings", "spawn_ego_vehicle">>
    /\ target_count = 0 /\ spawned = 0 /\ tries = 0 /\ ci = 1
    /\ actors = <<>> /\ alive = {} /\ kills = 0 /\ destroyLog = <<>>
    /\ speed = 0 /\ dist = CompletionRadius
    /\ now = ClockAtStart
    /\ pc = "spawn_ego_vehicle"
    /\ runner = TRUE /\ model = FALSE
    /\ metrics = EvaluationMetrics
    /\ start_time = 0 /\ stuck_start_time = None /\ elapsed = 0 /\ step = 0
    /\ speed_history = <<>>
    /\ report = None /\ exitCode = None
    /\ interrupted = FALSE /\ loopExit = "none"
    /\ nUpdates = 0 /\ nControls = 0 /\ nTicks = 0 /\ nFinalize = 0
    /\ atTop = <<0, 0, 0>>
    /\ cleanupCalls = 0 /\ samples = <<>> /\ cleanupLog = <<>>
    /\ injections = <<>> /\ draws = <<>>
    /\ town \in TownsOfOnePair
    /\ maneuver \in [type : {"straight"}, location : LocationTypes,
                      spawn_point_index : {-1}]
    /\ plan = None
    /\ found_intersections = None /\ pair_angle_diff = None
    /\ control = None
    /\ data = None /\ scenario = None
    /\ acceleration_history = <<>> /\ last_velocity = None /\ last_time = 0
    /\ collisions = <<>> /\ lane_invasions = <<>>
    /\ red_lights_run = 0 /\ lights_run = 0 /\ callbacks = <<0, 0>>

\* angle_diff = (exit_yaw - entry_yaw + 180) % 360 - 180, for the pair.
turn_angle_call ==
    /\ caller = "angles"
    /\ pair_angle_diff = None
    /\ LET pair == town.junctions[1].pairs[1] IN
          pair_angle_diff' = Some(turn_angle(pair.entry_yaw, pair.exit_yaw))
    /\ UNCHANGED <<cfg, caller, sessionVars, simVars, evalVars, mainVars, histVars,
                   injections, draws, town, maneuver, plan, found_intersections,
                   control, schemaVars, accelVars, eventVars>>

AngleNext == turn_angle_call

AngleSpec == AngleInit /\ [][AngleNext]_vars

\* ------------------------------------------------ the injector alone

\* Every vehicle configuration beside the default pedestrian one, and every
\* pedestrian configuration beside the default vehicle one.
InjectorConfigs ==
    {[ScenarioConfig("low", "low") EXCEPT
          !.vehicle_rule_break_probability = p, !.vehicle_behaviors = b] :
       p \in Probabilities, b \in [VehicleBehaviorNames -> Probabilities]}
    \cup
    {[ScenarioConfig("low", "low") EXCEPT
          !.pedestrian_rule_break_probability = p, !.pedestrian_behaviors = b] :
       p \in Probabilities, b \in [PedestrianBehaviorNames -> Probabilities]}

\* A session whose ego is spawned, before spawn_traffic.
InjectorInit ==
    /\ caller = "injector"
    /\ cfg \in InjectorConfigs
    /\ client = TRUE /\ world = TRUE
    /\ ego_vehicle = Some(1)
    /\ vehicles = <<>> /\ pedestrians = <<>>
    /\ pedestrian_controllers = <<>> /\ sensors = <<>>
    /\ destination = TRUE
    /\ result = "none" /\ reported = None
    /\ stages = <<"connect", "load_world", "apply_settings", "spawn_ego_vehicle",
                  "spawn_vehicles">>
    /\ target_count = 0 /\ spawned = 0 /\ tries = 0 /\ ci = 1
    /\ actors = <<"ego">> /\ alive = {1}
    /\ kills = 0 /\ destroyLog = <<>>
    /\ speed = 0 /\ dist = CompletionRadius
    /\ now = ClockAtStart
    /\ pc = "spawn_vehicles"
    /\ runner = TRUE /\ model = FALSE
    /\ metrics = EvaluationMetrics
    /\ start_time = 0 /\ stuck_start_time = None
    /\ elapsed = 0 /\ step = 0
    /\ speed_history = <<>>
    /\ report = None /\ exitCode = None
    /\ interrupted = FALSE /\ loopExit = "none"
    /\ nUpdates = 0 /\ nControls = 0 /\ nTicks = 0 /\ nFinalize = 0
    /\ atTop = <<0, 0, 0>>
    /\ cleanupCalls = 0 /\ samples = <<>> /\ cleanupLog = <<>>
    /\ injections = <<>> /\ draws = <<>>
    /\ town = Town /\ maneuver = ManeuverConfig /\ plan = None
    /\ found_intersections = None /\ pair_angle_diff = None
    /\ control = None
    /\ data = None /\ scenario = None
    /\ acceleration_history = <<>> /\ last_velocity = None /\ last_time = 0
    /\ collisions = <<>> /\ lane_invasions = <<>>
    /\ red_lights_run = 0 /\ lights_run = 0 /\ callbacks = <<0, 0>>

injectorFrame == <<cfg, caller, client, world, ego_vehicle, sensors, destination,
                   result, reported, stages, target_count, spawned, tries, ci, kills,
                   destroyLog, speed, dist, now, evalVars, mainVars, histVars,
                   locatorVars, control, schemaVars, accelVars, eventVars>>

\* The "if vehicle:" branch of _spawn_vehicles, for the first actor spawned.
vehicle_spawned ==
    /\ caller = "injector"
    /\ injections = <<>>
    /\ SpawnActor("vehicle")
    /\ \E r \in RandomDraws :
          /\ inject_vehicle(NewId, r)
          /\ draws' = Append(draws, r)
    /\ vehicles' = Append(vehicles, NewId)
    /\ UNCHANGED <<injectorFrame, pedestrians, pedestrian_controllers>>

\* The "if controller:" branch of _spawn_pedestrians, for the first actor spawned.
controller_spawned ==
    /\ caller = "injector"
    /\ injections = <<>>
    /\ actors' = actors \o <<"walker", "controller">>
    /\ alive' = alive \cup {NewId, NewId + 1}
    /\ pedestrians' = Append(pedestrians, NewId)
    /\ pedestrian_controllers' = Append(pedestrian_controllers, NewId + 1)
    /\ \E r \in RandomDraws :
          /\ inject_pedestrian(NewId + 1, r)
          /\ draws' = Append(draws, r)
    /\ UNCHANGED <<injectorFrame, vehicles>>

InjectorNext ==
    \/ vehicle_spawned
    \/ controller_spawned

InjectorSpec == InjectorInit /\ [][InjectorNext]_vars

\* ------------------------------------------------- the sensor callbacks

\* event.other_actor.type_id (or 'unknown' without an actor): the one kind of
\* actor the ego collides with here.
OtherActors == {"vehicle"}
\* [str(lt) for lt in event.crossed_lane_markings]
LaneTypes == {"Solid"}

EventCount == Len(collisions) + Len(lane_invasions) + lights_run

\* What a callback leaves alone: everything but its own log.
callbackFrame == <<cfg, caller, sessionVars, simVars, evalVars, mainVars, histVars,
                   injections, draws, locatorVars, control, schemaVars, accelVars,
                   red_lights_run, lights_run>>

\* A collision callback that also counts a lane invasion.
on_collision_and_lane ==
    /\ Len(sensors) >= 1 /\ is_alive(sensors[1])
    /\ EventCount < MaxEvents
    /\ \E other_actor \in OtherActors :
          collisions' = Append(collisions, other_actor)
    /\ lane_invasions' = Append(lane_invasions, "Solid")
    /\ callbacks' = <<callbacks[1] + 1, callbacks[2]>>
    /\ UNCHANGED callbackFrame

\* _on_collision, run by the collision sensor (the first one set up) while it
\* is alive: one record is appended to self.collisions.
on_collision ==
    /\ Len(sensors) >= 1 /\ is_alive(sensors[1])
    /\ EventCount < MaxEvents
    /\ \E other_actor \in OtherActors :
          collisions' = Append(collisions, other_actor)
    /\ callbacks' = <<callbacks[1] + 1, callbacks[2]>>
    /\ UNCHANGED <<callbackFrame, lane_invasions>>

\* _on_lane_invasion, run by the lane invasion sensor (the second one set up):
\* one record is appended to self.lane_invasions.
on_lane_invasion ==
    /\ Len(sensors) >= 2 /\ is_alive(sensors[2])
    /\ EventCount < MaxEvents
    /\ \E lane_types \in LaneTypes :
          lane_invasions' = Append(lane_invasions, lane_types)
    /\ callbacks' = <<callbacks[1], callbacks[2] + 1>>
    /\ UNCHANGED <<callbackFrame, collisions>>

\* The ego runs a red light while the loop runs. No sensor and no callback is
\* set up for it, and nothing assigns runner.red_lights_run after __init__.
ego_runs_red_light ==
    /\ pc \in LoopPcs
    /\ ego_vehicle # None /\ is_alive(Get(ego_vehicle))
    /\ EventCount < MaxEvents
    /\ lights_run' = lights_run + 1
    /\ UNCHANGED <<cfg, caller, sessionVars, simVars, evalVars, mainVars, histVars,
                   injections, draws, locatorVars, control, schemaVars, accelVars,
                   collisions, lane_invasions, red_lights_run, callbacks>>

\* tcp_evaluator.main when the user sends no interrupt.
Uninterrupted ==
    \/ create_runner
    \/ run
    \/ setup_check
    \/ load_model
    \/ get_ego
    \/ init
    \/ loop_top
    \/ loop_completion
    \/ loop_update
    \/ loop_control
    \/ loop_tick
    \/ loop_sleep
    \/ finalize
    \/ finalize_rest
    \/ return
    \/ raise_exception
    \/ except_exception
    \/ finally
    \/ cleanup
    \/ save_results

\* The uninterrupted program with the events of the ego.
EventNext ==
    \/ Uninterrupted
    \/ on_collision
    \/ on_lane_invasion
    \/ ego_runs_red_light

EventSpec == Init /\ [][EventNext]_vars /\ WF_vars(Uninterrupted)

\* load_world takes the world as the server has it and sets the traffic manager
\* to set_synchronous_mode(False); no world settings are applied, so the server
\* is in the mode it was started in, asynchronous unless another client changed
\* it: it computes frames on its own clock and the ego moves while the loop is
\* between two of its ticks.
server_frame ==
    /\ caller = "evaluator"
    /\ pc \in LoopPcs
    /\ \E s \in SpeedValues, d \in DistValues :
          /\ <<s, d>> # <<speed, dist>>
          /\ speed' = s /\ dist' = d
    /\ UNCHANGED <<cfg, caller, sessionVars, actors, alive, kills, destroyLog, now,
                   evalVars, mainVars, histVars, callVars>>

Next ==
    \/ Program
    \/ cleanup_again
    \/ KeyboardInterrupt
    \/ EnvKill
    \/ server_frame

Spec == Init /\ [][Next]_vars

\* tcp_evaluator.main alone with the user: no other client of the simulator.
LiveNext ==
    \/ Program
    \/ KeyboardInterrupt
    \/ server_frame

\* The program is one thread that always takes its next step; every
\* time.sleep(0.05) of the loop advances the clock (loop_sleep).
LiveSpec == Init /\ [][LiveNext]_vars /\ WF_vars(Program)

\* ================================================================ claims

Work == <<nUpdates, nControls, nTicks>>
Far == dist >= CompletionRadius

Slow(k) == samples[k][2] < StuckSpeedThreshold
At(k) == samples[k][1]
SlowRun(i, j) == i <= j /\ \A k \in i..j : Slow(k)

\* C2: metrics.stuck is up only if the samples hold one contiguous run of
\* below-threshold samples whose first and last are more than stuck_timeout
\* apart; below-threshold intervals separated by a sample at or above the
\* threshold never add up.
C2_StuckNeedsOneSustainedRun ==
    metrics.stuck =>
        \E i \in 1..Len(samples), j \in 1..Len(samples) :
            SlowRun(i, j) /\ At(j) - At(i) > StuckTimeout

\* Two below-threshold runs with a recovered sample between them, neither
\* longer than stuck_timeout, together longer: stuck stays down.
C2_Witness ==
    /\ caller = "metrics"
    /\ ~metrics.stuck
    /\ \E i, j, k, l \in 1..Len(samples) :
          /\ SlowRun(i, j) /\ j + 1 < k /\ ~Slow(j + 1) /\ SlowRun(k, l)
          /\ l = Len(samples)
          /\ At(j) - At(i) <= StuckTimeout
          /\ At(l) - At(k) <= StuckTimeout
          /\ (At(j) - At(i)) + (At(l) - At(k)) > StuckTimeout

\* Every speed the loop has sampled so far is at or above the stuck speed.
C3_Fast ==
    \A k \in 1..Len(speed_history) : speed_history[k] >= StuckSpeedThreshold

\* The case of C3 is broken: the ego is within the radius or below the stuck
\* speed while the loop runs, or the run is interrupted or a simulator call raises.
C3_Broken ==
    \/ pc \in LoopPcs /\ (~Far \/ speed < StuckSpeedThreshold)
    \/ interrupted
    \/ loopExit = "exception"

C3_TimedOut ==
    /\ pc = "done"
    /\ loopExit = "timeout"
    /\ metrics.timeout_reached /\ ~metrics.completed /\ ~metrics.stuck
    /\ metrics.completion_time > Timeout

\* C3: once the loop runs, if the ego never is within the radius and never
\* below the stuck speed, the run ends, with timeout_reached up, completed and
\* stuck down, and not before elapsed exceeds the timeout.
C3_TimeoutTerminates ==
    (pc = "loop_top" /\ C3_Fast) ~> (C3_TimedOut \/ C3_Broken)

\* Such a run: every sample at or above the stuck speed, ended by the timeout.
C3_Witness ==
    /\ C3_TimedOut
    /\ ~interrupted
    /\ Len(speed_history) > 0
    /\ C3_Fast

\* C4: on every exit path of run_evaluation finalize_metrics has run before
\* the session's cleanup is entered.
C4_FinalizeBeforeCleanup ==
    \A k \in 1..Len(cleanupLog) : cleanupLog[k].finalized

\* C5: two cleanups in a row: no actor is destroyed twice, after the first the
\* four collections are empty and ego_vehicle is None, and the second issues
\* no destroy and leaves them so.
C5_Emptied ==
    /\ sensors = <<>> /\ pedestrian_controllers = <<>>
    /\ pedestrians = <<>> /\ vehicles = <<>>
    /\ ego_vehicle = None

C5_CleanupTwice ==
    /\ \A i, j \in 1..Len(destroyLog) : i # j => destroyLog[i] # destroyLog[j]
    /\ cleanupCalls >= 1 => C5_Emptied
    /\ cleanupCalls >= 2 => Len(destroyLog) = cleanupLog[2].from

\* The second cleanup returned, after a first one that destroyed a sensor, a
\* controller, a walker, a vehicle and the ego.
C5_Witness ==
    /\ caller = "runner_main"
    /\ cleanupCalls = 2 /\ pc = "done"
    /\ cleanupLog[2].from >= 5

\* cleanup's order of destruction.
Rank(kind) ==
    CASE kind = "sensor" -> 1
      [] kind = "controller" -> 2
      [] kind = "walker" -> 3
      [] kind = "vehicle" -> 4
      [] kind = "ego" -> 5

Destroyed(kind) == \E i \in 1..Len(destroyLog) : actors[destroyLog[i]] = kind

\* C6: every destroy of cleanup is given to a spawned actor that is alive, and
\* no actor destroyed before it comes later in the order sensors, pedestrian
\* controllers, pedestrians, vehicles, ego.
C6_CleanupPartial ==
    [][destroyLog' # destroyLog =>
          LET a == destroyLog'[Len(destroyLog')] IN
          /\ Len(destroyLog') = Len(destroyLog) + 1
          /\ a \in 1..Len(actors)
          /\ a \in alive
          /\ \A i \in 1..Len(destroyLog) :
                Rank(actors[destroyLog[i]]) <= Rank(actors[a])]_vars

\* Setup stopped inside setup_sensors with one sensor attached, and cleanup
\* destroyed one actor of every kind.
C6_Witness ==
    /\ caller = "runner_main"
    /\ pc = "done" /\ result # "ready"
    /\ \A kind \in {"sensor", "controller", "walker", "vehicle", "ego"} :
          Destroyed(kind)
    /\ Len(SelectSeq(destroyLog, LAMBDA a : actors[a] = "sensor")) = 1

\* The stages of run() in the order of its code.
C7_Stages == <<"connect", "load_world", "apply_settings", "spawn_ego_vehicle",
               "spawn_vehicles", "setup_sensors", "settle">>

\* C7: the stages entered are a prefix of run()'s order; run answers 'ready'
\* or 'error' and nothing else; no stage is entered once it has answered; and
\* when it answers 'ready' every stage was entered, the ego is held and two
\* sensors are attached.
C7_RunStages ==
    /\ Len(stages) <= Len(C7_Stages)
    /\ \A k \in 1..Len(stages) : stages[k] = C7_Stages[k]
    /\ result \in {"none", "ready", "error"}
    /\ result # "none" => pc \notin (SetupPcs \ {"run_returned"})
    /\ (result = "ready" /\ pc = "run_returned") =>
          /\ stages = C7_Stages
          /\ ego_vehicle # None
          /\ Len(sensors) = 2
          /\ \A k \in 1..2 : actors[sensors[k]] = "sensor"

\* run() answered 'ready' with a vehicle and a pedestrian spawned.
C7_Witness ==
    /\ caller = "runner_main"
    /\ pc = "run_returned" /\ result = "ready"
    /\ Len(vehicles) > 0 /\ Len(pedestrians) > 0

\* C8: unless setup answered 'ready' the loop is not entered: no metrics
\* update, no control, no tick, and completed stays false.
C8_NoLoopWithoutReady ==
    result # "ready" =>
        /\ pc \notin LoopPcs
        /\ Work = <<0, 0, 0>>
        /\ speed_history = <<>>
        /\ ~metrics.completed

\* A run whose setup failed after the ego was spawned, over and reported.
C8_Witness ==
    /\ caller = "evaluator"
    /\ pc = "done" /\ result = "error"
    /\ report # None
    /\ Len(actors) > 0

\* C9: the report of a run whose session did not get ready carries an error
\* tag, or the process exits with a status other than 0.
C9_FailedSetupIsTagged ==
    (report # None /\ result # "ready") =>
        \/ "error" \in DOMAIN Get(report)
        \/ "error" \in DOMAIN Get(report).metrics
        \/ Get(exitCode) # 0

\* The terminal state a reader gets from the flags of the reported metrics,
\* taking a report without any flag for an interrupted run.
RecoverTerminal(m) ==
    IF m.timeout_reached THEN "timeout"
    ELSE IF m.completed THEN "completed"
    ELSE IF m.stuck THEN "stuck"
    ELSE "interrupt"

\* C10: the terminal state that ended the loop is recovered from the flags
\* of the reported metrics.
C10_TerminalStateRecorded ==
    (report # None /\ loopExit \in {"completed", "timeout", "stuck", "interrupt"}) =>
        RecoverTerminal(Get(report).metrics) = loopExit

\* The rule_break_probability and the named probabilities that govern an
\* injection, and the names of its actor's class.
RuleBreakProb(inj) ==
    IF inj.kind = "vehicle" THEN cfg.vehicle_rule_break_probability
    ELSE cfg.pedestrian_rule_break_probability
BehaviorsOf(inj) ==
    IF inj.kind = "vehicle" THEN cfg.vehicle_behaviors ELSE cfg.pedestrian_behaviors
One(p) == \A q \in Probabilities : q <= p
Applied(inj, name) == \E k \in 1..Len(inj.calls) : inj.calls[k].behavior = name

\* C11: with rule_break_probability 0 no actor gets a call for any named
\* sub-behavior, whatever the draws and the sub-behavior probabilities.
C11_NothingAtZero ==
    \A i \in 1..Len(injections) :
        RuleBreakProb(injections[i]) = 0 =>
            \A name \in DOMAIN BehaviorsOf(injections[i]) :
                ~Applied(injections[i], name)

\* C12: with rule_break_probability 1 and every named probability 1 every
\* actor gets a call for every named behavior of its class.
C12_EverythingAtOne ==
    \A i \in 1..Len(injections) :
        (/\ One(RuleBreakProb(injections[i]))
         /\ \A name \in DOMAIN BehaviorsOf(injections[i]) :
               One(BehaviorsOf(injections[i])[name]))
        => \A name \in DOMAIN BehaviorsOf(injections[i]) :
               Applied(injections[i], name)

\* C13: every spawned vehicle gets exactly one speed-difference call, of a
\* value in the band, whatever the rule-break draw.
C13_SpeedVarianceAlways ==
    \A i \in 1..Len(injections) :
        injections[i].kind = "vehicle" =>
            \E k \in 1..Len(injections[i].calls) :
                /\ injections[i].calls[k].method = "vehicle_percentage_speed_difference"
                /\ injections[i].calls[k].value \in SpeedDiffs
                /\ \A l \in 1..Len(injections[i].calls) :
                      injections[i].calls[l].method = "vehicle_percentage_speed_difference"
                          => l = k

\* C14: find_maneuver_location returns a plan for every map and request.
C14_AlwaysAPlan == plan # None => ~Get(plan).raised

\* The map has one junction, signalized, of one pair, and the request is for
\* a signalized intersection without a spawn point index.
OnePair ==
    /\ Len(town.junctions) = 1
    /\ town.junctions[1].has_signal
    /\ Len(town.junctions[1].pairs) = 1
    /\ maneuver.location = "intersection_signal"
    /\ maneuver.spawn_point_index < 0
ThePair == town.junctions[1].pairs[1]

\* The turn angle of the pair, normalized: the one value of [-180, 180) that
\* differs from exit_yaw - entry_yaw by a multiple of 360.
TheAngle ==
    CHOOSE a \in -180..179 : (a - (ThePair.exit_yaw - ThePair.entry_yaw)) % 360 = 0

InBand(type, a) ==
    \/ type = "straight" /\ -30 < a /\ a < 30
    \/ type = "left_turn" /\ -120 < a /\ a < -60
    \/ type = "right_turn" /\ 60 < a /\ a < 120

DeadZone(a) ==
    \/ 30 <= a /\ a <= 60
    \/ -60 <= a /\ a <= -30
    \/ 120 <= a
    \/ a <= -120

\* C15: a pair is taken for a maneuver type iff its normalized angle is in
\* the band of the type; no angle is in two bands and the angles of the dead
\* zones, end points included, are taken for no type.
C15_TurnBands ==
    (plan # None /\ OnePair /\ ThePair.has_previous /\ ThePair.has_next) =>
        /\ Cardinality({t \in ManeuverTypes : InBand(t, TheAngle)}) <= 1
        /\ DeadZone(TheAngle) => \A t \in ManeuverTypes : ~InBand(t, TheAngle)
        /\ Get(plan).path = "junction" <=> InBand(maneuver.type, TheAngle)
        /\ DeadZone(TheAngle) => Get(plan).path = "fallback"

\* The angle is exactly 30 and the request for straight is not met by the pair.
C15_Witness ==
    /\ plan # None /\ OnePair /\ ThePair.has_previous /\ ThePair.has_next
    /\ maneuver.type = "straight"
    /\ TheAngle = 30
    /\ Get(plan).path = "fallback"

\* The one pair turns by -90 degrees and a left turn is asked for.
LeftTurnCase ==
    /\ plan # None /\ OnePair
    /\ maneuver.type = "left_turn"
    /\ TheAngle = -90

FromThePair ==
    /\ ~Get(plan).raised
    /\ Get(plan).path = "junction"
    /\ Get(plan).spawn = <<"previous", 40, 1, 1>>
    /\ Get(plan).destination = <<"next", 30, 1, 1>>

\* C16 as stated: in the left-turn case the plan is the one of the pair.
C16_PlanFromThePair == LeftTurnCase => FromThePair

\* C16: in the left-turn case the plan is the one of the pair when the road
\* has a waypoint 40 before the entry and one 30 after the exit, and the
\* random fallback is taken when it has not.
C16_PlanFromThePairOnRoad ==
    LeftTurnCase =>
        IF ThePair.has_previous /\ ThePair.has_next
        THEN FromThePair
        ELSE Get(plan).path = "fallback"

C16_Witness ==
    /\ LeftTurnCase
    /\ ThePair.has_previous /\ ThePair.has_next
    /\ FromThePair

\* The inference of a call failed.
C17_Failed(c) == c.command \notin CommandSlots \/ c.forward.raised

C18_Values(d) ==
    {d.traffic.vehicles.rule_break_probability,
     d.traffic.pedestrians.rule_break_probability, d.road.friction}
    \union {d.traffic.vehicles.behaviors[n] : n \in VehicleBehaviorNames}
    \union {d.traffic.pedestrians.behaviors[n] : n \in PedestrianBehaviorNames}

\* C18: constructing a ScenarioConfig gives an object exactly when both
\* rule_break_probability fields, every named behavior probability and the
\* road friction lie in [0.0, 1.0]; otherwise the construction raises and
\* there is no object. Every constructed object has all of them in [0.0, 1.0].
C18_ProbabilitiesInUnitRange ==
    scenario # None =>
        /\ Get(scenario).raised <=> ~(C18_Values(Get(data)) \subseteq Probabilities)
        /\ ~Get(scenario).raised =>
              C18_Values(Get(scenario).value) \subseteq Probabilities
C18_Witness ==
    /\ scenario # None /\ Get(scenario).raised
    /\ Get(data).road.friction = 3
    /\ C18_Values([Get(data) EXCEPT !.road.friction = 2]) \subseteq Probabilities

\* Two fractions of positive denominators are the same number.
SameFraction(a, b) == a.num * b.den = b.num * a.den

\* max(0, 100 - 10 * variance), the variance of no sample taken as 0.
C19_Score ==
    IF acceleration_history = <<>> THEN [num |-> 100, den |-> 1]
    ELSE comfort(var(acceleration_history))

\* C19: once a run is finalized its comfort score is max(0, 100 - 10 *
\* variance of the acceleration samples), 100 when no sample was taken, and
\* lies between 0 and 100.
C19_ComfortScore ==
    nFinalize > 0 =>
        /\ SameFraction(metrics.comfort_score, C19_Score)
        /\ metrics.comfort_score.num >= 0
        /\ metrics.comfort_score.num <= 100 * metrics.comfort_score.den

\* The first sample of the run of below-threshold samples that ends at the
\* latest sample.
C20_RunStart ==
    CHOOSE i \in 1..Len(samples) :
        /\ SlowRun(i, Len(samples))
        /\ i > 1 => ~Slow(i - 1)

\* C20: after every update_metrics call the stuck timer is set iff the speed of
\* the latest sample is below stuck_speed_threshold, and when set it holds the
\* time of the first sample of the current run of below-threshold samples;
\* before the first call it is unset.
C20_TimerFollowsLatestSample ==
    IF samples = <<>> THEN stuck_start_time = None
    ELSE /\ stuck_start_time # None <=> Slow(Len(samples))
         /\ Slow(Len(samples)) => stuck_start_time = Some(At(C20_RunStart))

\* A recovered sample, then a run of three below-threshold samples at
\* different times: the timer holds the time of the first of the three.
C20_Witness ==
    /\ caller = "metrics"
    /\ Len(samples) >= 4
    /\ Slow(Len(samples))
    /\ C20_RunStart = Len(samples) - 2
    /\ ~Slow(Len(samples) - 3)
    /\ At(Len(samples) - 2) < At(Len(samples) - 1)
    /\ At(Len(samples) - 1) < At(Len(samples))
    /\ stuck_start_time = Some(At(Len(samples) - 2))

\* C21: in every execution of run_evaluation, interrupted or not,
\* finalize_metrics runs at most once.
C21_FinalizedOnce == nFinalize <= 1

\* C22: the loop is left for the interrupt handler only from the top of an
\* iteration, never between two steps of one iteration.
C22_InterruptOnlyAtTop ==
    [][(pc \in LoopPcs /\ pc' = "except_interrupt") => pc = "loop_top"]_vars

\* C23: an iteration that does not end the run has, once its tick is issued,
\* made one metrics update and one world tick, and one control application
\* when a model is loaded (none otherwise).
C23_OneControlOneTick ==
    pc = "loop_sleep" =>
        /\ nUpdates = atTop[1] + 1
        /\ nControls = atTop[2] + (IF model THEN 1 ELSE 0)
        /\ nTicks = atTop[3] + 1

\* C24: while the loop runs, the speed and the position of the ego change only
\* in the step that is the loop's own world tick.
C24_LoopDrivesTheWorld ==
    [][(pc \in LoopPcs /\ <<speed', dist'>> # <<speed, dist>>) =>
          (pc = "loop_tick" /\ nTicks' = nTicks + 1)]_vars

\* The step of finalize_metrics that reads the collision count, and the step
\* that reads the rest.
ReadsTheCount == nFinalize' = nFinalize + 1
ReadsTheRest ==
    /\ pc \in {"finalize_rest", "except_interrupt_rest"}
    /\ pc' \in {"return", "finally"}

\* C25: the steps that finalize the metrics leave in them the number of
\* collision callbacks and of lane invasion callbacks completed so far, the
\* other_actor of every collision record, and the number of red lights the
\* ego has run so far.
C25_CountersMatchEvents ==
    [][/\ ReadsTheCount => metrics'.num_collisions = callbacks[1]
       /\ ReadsTheRest =>
              /\ metrics'.collision_types = collisions
              /\ metrics'.lane_invasions = callbacks[2]
              /\ metrics'.red_lights_run = lights_run]_vars

\* The log new is the log old with k records appended.
Grown(old, new, k) ==
    Len(new) = Len(old) + k /\ SubSeq(new, 1, Len(old)) = old

\* C26: each log holds one record per completed callback of its kind; a step
\* that completes a callback appends one record to the log of that callback
\* and changes nothing else; no step shortens or rewrites a log; and the
\* counts finalize_metrics reads are the numbers of callbacks completed before
\* the read.
C26_CallbacksOnlyAppend ==
    /\ [](callbacks = <<Len(collisions), Len(lane_invasions)>>)
    /\ [][/\ callbacks' # callbacks =>
                /\ \/ /\ callbacks' = <<callbacks[1] + 1, callbacks[2]>>
                      /\ Grown(collisions, collisions', 1)
                      /\ lane_invasions' = lane_invasions
                   \/ /\ callbacks' = <<callbacks[1], callbacks[2] + 1>>
                      /\ Grown(lane_invasions, lane_invasions', 1)
                      /\ collisions' = collisions
                /\ UNCHANGED <<metrics, stuck_start_time, sessionVars, simVars,
                               evalVars, mainVars, accelVars, red_lights_run>>
          /\ \E k \in 0..1 : Grown(collisions, collisions', k)
          /\ \E k \in 0..1 : Grown(lane_invasions, lane_invasions', k)
          /\ ReadsTheCount => metrics'.num_collisions = callbacks[1]
          /\ ReadsTheRest => metrics'.lane_invasions = callbacks[2]]_vars

\* The metrics were finalized after one collision callback and before a lane
\* invasion callback: the collision is counted, the lane invasion is in its
\* log only.
C26_Witness ==
    /\ nFinalize > 0
    /\ callbacks = <<1, 1>>
    /\ metrics.num_collisions = 1 /\ metrics.lane_invasions = 0

\* The junctions of the map with a sampled waypoint and the given signal state.
SampledJunctions(signal) ==
    {town.waypoints[k] : k \in 1..Len(town.waypoints)} \
        ({0} \union {j \in 1..Len(town.junctions) :
                        town.junctions[j].has_signal # signal})

\* The candidates are one per junction of J, and nothing else.
OnePer(found, J) ==
    /\ {found[k] : k \in 1..Len(found)} = J
    /\ Len(found) = Cardinality(J)

\* C27: for intersection_signal the candidates are the sampled junctions with
\* a traffic light, one per junction; for intersection_no_signal those
\* without; for road_segment the sampled waypoints outside every junction, so
\* there is a candidate whenever such a waypoint was sampled.
C27_CandidatesOfTheClass ==
    found_intersections # None =>
        CASE maneuver.location = "intersection_signal" ->
                OnePer(Get(found_intersections), SampledJunctions(TRUE))
          [] maneuver.location = "intersection_no_signal" ->
                OnePer(Get(found_intersections), SampledJunctions(FALSE))
          [] maneuver.location = "road_segment" ->
                /\ \A k \in 1..Len(Get(found_intersections)) :
                      ~is_junction(Get(found_intersections)[k])
                /\ (\E k \in 1..Len(town.waypoints) :
                       ~is_junction(town.waypoints[k]))
                      => Get(found_intersections) # <<>>

\* The heading change of a pair counted clockwise, in [0, 360), is in the
\* band of the maneuver type.
TurnClass(pair, type) ==
    LET d == (pair.exit_yaw - pair.entry_yaw) % 360 IN
    \/ type = "straight" /\ (d < 30 \/ d > 330)
    \/ type = "left_turn" /\ 240 < d /\ d < 300
    \/ type = "right_turn" /\ 60 < d /\ d < 120

\* The candidate junctions in enumeration order, and the valid pairs: <<i, k>>
\* for pair k of candidate i.
Candidates == find_intersections(town, maneuver.location)
ValidPairs ==
    {ik \in (1..Len(Candidates)) \X (1..2) :
        /\ ik[2] <= Len(town.junctions[Candidates[ik[1]]].pairs)
        /\ LET pair == town.junctions[Candidates[ik[1]]].pairs[ik[2]] IN
              /\ TurnClass(pair, maneuver.type)
              /\ pair.has_previous /\ pair.has_next}
Before(a, b) == a[1] < b[1] \/ (a[1] = b[1] /\ a[2] <= b[2])

\* The plan is the one of the junction search: that of the first valid pair,
\* or a random spawn point when there is none.
PlanOfTheSearch ==
    IF ValidPairs = {}
    THEN Get(plan).path \in {"no_intersections", "fallback"}
    ELSE LET first == CHOOSE a \in ValidPairs : \A b \in ValidPairs : Before(a, b)
         IN  /\ ~Get(plan).raised
             /\ Get(plan).path = "junction"
             /\ Get(plan).spawn = <<"previous", 40, Candidates[first[1]], first[2]>>
             /\ Get(plan).destination = <<"next", 30, Candidates[first[1]], first[2]>>

\* C28: without an index, the plan is the one of the first valid pair in
\* enumeration order (junction by junction, pair by pair), a pair being valid
\* when its turn class matches and the road has the waypoint 40 before its
\* entry and the waypoint 30 after its exit; the random fallback is taken
\* exactly when no pair of any candidate junction is valid.
C28_FirstValidPair ==
    (plan # None /\ maneuver.spawn_point_index < 0) => PlanOfTheSearch

\* The first junction has a matching pair without the waypoint before its
\* entry and then a valid one; the plan is that of the second pair.
C28_Witness ==
    /\ plan # None /\ maneuver.spawn_point_index < 0
    /\ Len(Candidates) = 2
    /\ Len(town.junctions[Candidates[1]].pairs) = 2
    /\ TurnClass(town.junctions[Candidates[1]].pairs[1], maneuver.type)
    /\ ~town.junctions[Candidates[1]].pairs[1].has_previous
    /\ <<1, 2>> \in ValidPairs /\ <<2, 1>> \in ValidPairs
    /\ Get(plan).spawn = <<"previous", 40, Candidates[1], 2>>

\* The plan is the spawn point of the index given and the point 100 ahead.
PlanOfTheIndex ==
    Get(plan) = Plan("index", <<"spawn_point", maneuver.spawn_point_index + 1>>,
                     <<"ahead", 100, <<"spawn_point", maneuver.spawn_point_index + 1>>>>)

\* C29 as stated: every index given, in the list or beyond it, is the spawn.
C29_AnyIndexIsTheSpawn ==
    (plan # None /\ maneuver.spawn_point_index >= 0) => PlanOfTheIndex

\* C29: an index given that is in the list of spawn points is the spawn, with
\* no junction search, and the destination is the point 100 ahead; an index
\* beyond the list is ignored and the plan is that of the junction search.
C29_IndexInTheListIsTheSpawn ==
    (plan # None /\ maneuver.spawn_point_index >= 0) =>
        IF maneuver.spawn_point_index < town.spawn_points
        THEN PlanOfTheIndex
        ELSE PlanOfTheSearch

\* An index in the list on a map where the search would have found a pair.
C29_Witness ==
    /\ plan # None
    /\ maneuver.spawn_point_index = 0 /\ town.spawn_points = 2
    /\ ValidPairs # {}
    /\ PlanOfTheIndex

\* The heading difference of the pair whose angle was computed.
HeadingDifference ==
    town.junctions[1].pairs[1].exit_yaw - town.junctions[1].pairs[1].entry_yaw

\* C30 as stated: the turn angle is in (-180, 180], is the heading difference
\* modulo 360, and is +180 for a difference of exactly 180.
C30_AngleInLeftOpenInterval ==
    pair_angle_diff # None =>
        /\ -180 < Get(pair_angle_diff) /\ Get(pair_angle_diff) <= 180
        /\ (Get(pair_angle_diff) - HeadingDifference) % 360 = 0
        /\ (HeadingDifference = 180 => Get(pair_angle_diff) = 180)

\* C30: the turn angle is in [-180, 180), is the heading difference modulo
\* 360, and is -180 for a difference of exactly 180.
C30_AngleInRightOpenInterval ==
    pair_angle_diff # None =>
        /\ -180 <= Get(pair_angle_diff) /\ Get(pair_angle_diff) < 180
        /\ (Get(pair_angle_diff) - HeadingDifference) % 360 = 0
        /\ (HeadingDifference = 180 => Get(pair_angle_diff) = -180)

\* The angle of a pair that turns by exactly 180 has been computed.
C30_Witness ==
    /\ pair_angle_diff # None
    /\ HeadingDifference = 180
    /\ Get(pair_angle_diff) = -180

\* C31: every pedestrian of a run is spawned before the first controller of
\* the run is attached: no walker is spawned by a session that already holds
\* a controller.
C31_PedestriansSpawnedAsOneBatch ==
    [][Len(pedestrians') > Len(pedestrians) => pedestrian_controllers = <<>>]_vars

\* A step of one of the two spawn loops that takes the next candidate.
SpawnAttempt ==
    /\ pc \in {"spawn_vehicle", "spawn_pedestrian"}
    /\ spawned < target_count /\ tries > 0
    /\ tries' # tries

\* A step of run() that leaves one of the two spawn loops (Ctrl-C, which ends
\* run() at any point, is not one).
SpawnLoopLeft ==
    /\ pc \in {"spawn_vehicle", "spawn_pedestrian"}
    /\ spawned >= target_count \/ tries = 0
    /\ pc' \notin {pc, "main_finally"}

\* C32: spawning is best-effort. A candidate is taken once (the candidates
\* left go down by one with every attempt and never up inside a loop); an
\* attempt that gives no actor raises nothing and the loop goes on; a loop
\* that ends, with the target met or not, hands over to the next stage; and
\* a 'ready' result reports the vehicles and pedestrians the session holds.
C32_SpawningIsBestEffort ==
    [][/\ SpawnAttempt => tries' = tries - 1
       /\ (pc \in {"spawn_vehicle", "spawn_pedestrian"} /\ pc' = pc) => tries' <= tries
       /\ (SpawnAttempt /\ actors' = actors) =>
              pc' = pc /\ result' = result /\ spawned' = spawned
       /\ SpawnLoopLeft =>
              /\ result' = result
              /\ pc' = IF pc = "spawn_vehicle" THEN "spawn_pedestrians"
                                                ELSE "setup_sensors"
       /\ (result # "ready" /\ result' = "ready") =>
              reported' = Some(Counts(Len(vehicles'), Len(pedestrians')))]_vars

\* A session that is ready with no vehicle and one pedestrian, where both
\* densities asked for at least one.
C32_Witness ==
    /\ result = "ready" /\ pc = "run_returned"
    /\ cfg.vehicles = "low" /\ cfg.pedestrians = "low"
    /\ vehicles = <<>> /\ Len(pedestrians) = 1
    /\ reported = Some(Counts(0, 1))

\* The count range of each actor class for the configured density, in the
\* unit of the model.
VehicleRange == Scaled(VEHICLE_DENSITY_MAP(cfg.vehicles))
PedestrianRange == Scaled(PEDESTRIAN_DENSITY_MAP(cfg.pedestrians))

Owned ==
    (IF ego_vehicle = None THEN {} ELSE {Get(ego_vehicle)})
    \cup {vehicles[k] : k \in 1..Len(vehicles)}
    \cup {pedestrians[k] : k \in 1..Len(pedestrians)}
    \cup {pedestrian_controllers[k] : k \in 1..Len(pedestrian_controllers)}
    \cup {sensors[k] : k \in 1..Len(sensors)}

\* C34: a stage method, or run(), called a second time on a ready session
\* spawns no actor, and when it has returned every live actor is one the
\* session refers to.
C34_StagesAreIdempotent ==
    /\ [][(caller \in StageMethods \cup {"run"} /\ caller' = caller)
              => actors' = actors]_vars
    /\ []((caller \in StageMethods \cup {"run"} /\ pc = "run_returned")
              => alive \subseteq Owned)

\* C35: the final metrics have at most one of completed, timeout_reached and
\* stuck.
C35_OneTerminalFlag ==
    nFinalize >= 1 =>
        /\ ~(metrics.completed /\ metrics.timeout_reached)
        /\ ~(metrics.completed /\ metrics.stuck)
        /\ ~(metrics.timeout_reached /\ metrics.stuck)

\* C38: in the metrics run_evaluation returns after finalizing them,
\* num_collisions is the length of collision_types.
C38_CountIsLengthOfTypes ==
    (pc = "finally" /\ nFinalize > 0 /\ loopExit # "exception") =>
        metrics.num_collisions = Len(metrics.collision_types)

\* The program points of run_evaluation before its finally clause has acted.
BeforeFinally ==
    TryPcs \cup {"finalize", "finalize_rest", "return", "except_interrupt",
                 "except_interrupt_rest", "except_exception", "finally"}

C37_NoSpawnedActorSurvivesCleanup ==
    (caller = "runner_main" /\ pc = "done" /\ cleanupCalls = 1) => alive = {}

\* C39: final metrics with completed set report a distance_to_destination
\* below the completion radius.
C39_CompletedWithinRadius ==
    (nFinalize >= 1 /\ metrics.completed) =>
        metrics.distance_to_destination < CompletionRadius

\* C40: in finalized metrics 0 <= min_speed <= average_speed <= max_speed, and
\* min_speed and max_speed are the smallest and the largest speed sample of
\* the run, whatever the number of samples.
C40_SpeedStatisticsOrdered ==
    nFinalize >= 1 =>
        /\ metrics.min_speed # inf
        /\ LET lo == IF metrics.min_speed = inf THEN 0 ELSE metrics.min_speed[1]
               hi == metrics.max_speed
               avg == metrics.average_speed
           IN  /\ 0 <= lo
               /\ lo * avg.den <= avg.num
               /\ avg.num <= hi * avg.den
               /\ \A k \in 1..Len(speed_history) :
                      lo <= speed_history[k] /\ speed_history[k] <= hi
               /\ speed_history # <<>> =>
                      \E i, j \in 1..Len(speed_history) :
                          speed_history[i] = lo /\ speed_history[j] = hi

====
